---- MODULE Spec2Model ----
(***************************************************************************)
(* A model of the binary decoding core of the EverQuest zone converter:    *)
(*   - src/wld.py  Wld.__init__ (header, fragment table pass, rebake),     *)
(*                 the fragment handlers, Wld.getFrag, FragRef.resolve     *)
(*   - src/s3d.py  readS3D (archive container reader)                      *)
(* Streams are modelled at the byte level: a buffer is a sequence of       *)
(* values 0..255 and every integer field is decoded little-endian from it. *)
(* Strings are sequences of character codes.                               *)
(***************************************************************************)
EXTENDS Integers, Sequences, FiniteSets, TLC

(***************************************************************************)
(* Bounds of the model.                                                    *)
(***************************************************************************)
\* most fragments in a stream of the table-walk specification
MaxWalkFrags == 3
\* most fragments in a stream of the reference-resolution specification
MaxRefFrags == 3
\* most top-level resolve() calls made by the client in one behaviour
MaxCalls == 2
\* depth of nested resolve() frames at which the interpreter gives up
\* (sys.getrecursionlimit(), 1000 by default; kept small here)
RecursionLimit == 4

(***************************************************************************)
(* Program constants.                                                      *)
(***************************************************************************)
WldMagic == 1414544642
WldOldMagic == 87296
NoNameOffset == 16777216
DirectoryCrc == 1633159881
DefaultAttenuation == 200
\* largest value the model's integers hold; an unsigned field at or above
\* 2^31 is represented by this value
MaxInt == 2147483647

xorkey == <<149, 58, 197, 42, 149, 122, 149, 106>>

(***************************************************************************)
(* Little-endian encoding, used to build the input streams.                *)
(***************************************************************************)
LE16(n) == <<n % 256, (n \div 256) % 256>>

LE32(n) ==
  IF n >= 0
  THEN <<n % 256, (n \div 256) % 256, (n \div 65536) % 256, (n \div 16777216) % 256>>
  ELSE LET m == -(n + 1)
       IN <<255 - (m % 256), 255 - ((m \div 256) % 256),
            255 - ((m \div 65536) % 256), 255 - ((m \div 16777216) % 256)>>

RECURSIVE Zeros(_)
Zeros(n) == IF n <= 0 THEN <<>> ELSE <<0>> \o Zeros(n - 1)

RECURSIVE Concat(_)
Concat(ss) == IF ss = <<>> THEN <<>> ELSE Head(ss) \o Concat(Tail(ss))

(***************************************************************************)
(* The primitive byte cursor (class Buffer).  A read of n bytes at pos is  *)
(* possible when it stays inside the data; otherwise the read fails.       *)
(***************************************************************************)
BufCanRead(data, pos, n) == pos >= 0 /\ n >= 0 /\ pos <= Len(data) /\ n <= Len(data) - pos

BufRead(data, pos, n) == SubSeq(data, pos + 1, pos + n)

BufUshort(data, pos) == data[pos + 1] + 256 * data[pos + 2]

BufUint(data, pos) ==
  IF data[pos + 4] >= 128
  THEN MaxInt
  ELSE data[pos + 1] + 256 * data[pos + 2] + 65536 * data[pos + 3]
       + 16777216 * data[pos + 4]

BufInt(data, pos) ==
  IF data[pos + 4] >= 128
  THEN -((255 - data[pos + 1]) + 256 * (255 - data[pos + 2])
         + 65536 * (255 - data[pos + 3]) + 16777216 * (255 - data[pos + 4])) - 1
  ELSE BufUint(data, pos)

\* a + b for a position a and a length b read from the stream, kept inside
\* the model's integers
PosAdd(a, b) == IF b > MaxInt - a THEN MaxInt ELSE a + b

\* n consecutive unsigned 32-bit values, b.uint(n)
BufUints(data, pos, n) == [j \in 1..n |-> BufUint(data, pos + 4 * (j - 1))]

\* n consecutive unsigned 16-bit values, b.ushort(n)
BufUshorts(data, pos, n) == [j \in 1..n |-> BufUshort(data, pos + 2 * (j - 1))]

(***************************************************************************)
(* Strings.                                                                *)
(***************************************************************************)
Xor_Plus(a, b) == (a + b) % 256

RECURSIVE Xor(_, _)
Xor(a, b) ==
  IF a = 0 THEN b
  ELSE IF b = 0 THEN a
  ELSE ((a + b) % 2) + 2 * Xor(a \div 2, b \div 2)

\* Wld.decodeString: position i is XORed with key byte i mod 8
decodeString(s) ==
  [j \in 1..Len(s) |-> Xor(s[j], xorkey[((j - 1) % Len(xorkey)) + 1])]

RECURSIVE UpToNul(_)
UpToNul(s) ==
  IF s = <<>> \/ Head(s) = 0 THEN <<>> ELSE <<Head(s)>> \o UpToNul(Tail(s))

\* Python slice s[i:], also for negative i
SliceFrom(s, i) ==
  LET start == IF i >= 0 THEN i ELSE IF Len(s) + i < 0 THEN 0 ELSE Len(s) + i
  IN SubSeq(s, start + 1, Len(s))

\* Wld.getString: stringTable[i:].split("\0", 1)[0]
getString(tab, i) == UpToNul(SliceFrom(tab, i))

\* the name None (an unnamed fragment), distinct from the empty name <<>>
NoneName == <<-1>>


(***************************************************************************)
(* State.                                                                  *)
(***************************************************************************)
VARIABLES
  \* ---- Wld (src/wld.py) ----
  b_data,       \* self.b: the bytes of the scene-description stream
  b_pos,        \* self.b.pos: the cursor
  old,          \* self.old
  fragCount,    \* fragCount of the header
  stringTable,  \* self.stringTable (decoded)
  baked,        \* self.baked
  frags,        \* self.frags: index -> table entry
  names,        \* self.names: name -> table entry
  byType,       \* self.byType: type -> sequence of table entries
  idx,          \* loop variable i of the table pass
  wpc,          \* where the constructor is: "start", "table", "ready", "raised"
  werr,         \* the exception the constructor raised, "" if none
  wsite,        \* where it was raised: "header", "entry" (a fragment's 12-byte
                \* header) or "handler"; "" if none
  refs,         \* the FragRef objects created so far (object k is refs[k])
  walk,         \* history: one record per fragment the table pass completed
  calls,        \* history: one record per resolve() call the client made
  \* ---- readS3D (src/s3d.py) ----
  a_data,       \* the bytes of the archive
  a_pos,        \* read position of the archive
  a_i,          \* loop variable i over the directory table
  a_count,      \* count read from the directory table
  a_offset,     \* offset read from the start of the archive
  directory,    \* directory: <<>> while None, else <<blob>>
  filelist,     \* filelist: sequence of [foff, data]
  files,        \* the returned mapping: lowercase name -> data
  entries,      \* history: one record per directory table entry read
  binds,        \* history: one record per filename bound to a file
  spc,          \* where readS3D is: "start", "entries", "returned", "raised"
  serr,         \* the exception readS3D raised, "" if none
  ssite,        \* where it was raised: "open", "magic", "entry", "chunk",
                \* "directory", "count", "names"; "" if none
  \* ---- a client of Wld.decodeString ----
  c_in,         \* the sequence it started from
  c_out,        \* the result of the applications of decodeString so far
  c_n,          \* number of applications so far
  \* ---- the assembler walks of Wld (convertZone, convertObjects, ----
  \* ---- convertLights) and print_texture_warnings               ----
  s3d,          \* self.s3d: the archive file mapping given to the constructor
  texture_warnings, \* self.texture_warnings: key -> count
  zone,         \* the zone the walks add to
  apc,          \* how the last walk ended: "" (none yet), "returned", "raised"
  aerr,         \* the exception the last walk raised, "" if none
  nwalks,       \* number of walks called so far
  awalk,        \* the walk called last, "" if none
  runs,         \* history: one record per polytex run a walk went through
  printed       \* history: what print_texture_warnings printed, per call

wldVars == <<b_data, b_pos, old, fragCount, stringTable, baked, frags, names,
             byType, idx, wpc, werr, wsite, refs, walk, calls>>
s3dVars == <<a_data, a_pos, a_i, a_count, a_offset, directory, filelist, files,
             entries, binds, spc, serr, ssite>>
codecVars == <<c_in, c_out, c_n>>
asmVars == <<s3d, texture_warnings, zone, apc, aerr, nwalks, awalk, runs, printed>>
nonWldVars == <<s3dVars, codecVars, asmVars>>
nonS3dVars == <<wldVars, codecVars, asmVars>>
vars == <<wldVars, s3dVars, codecVars, asmVars>>

(***************************************************************************)
(* Fragment payloads.  Every payload is a record of one shape:             *)
(*   k   "None", "FragRef", or the kind of structured value                *)
(*   r   for "FragRef": the FragRef object; for a dict holding one         *)
(*       reference: that FragRef object; 0 otherwise                       *)
(*   d   the scalar fields of a dict payload                               *)
(*   nm  the "_name" entry the table pass adds to a dict payload           *)
(*   m   the arrays of a mesh payload                                      *)
(* Floats are kept as the 32-bit pattern read from the stream.             *)
(***************************************************************************)
NoMesh == [vertices |-> <<>>, texcoords |-> <<>>, normals |-> <<>>, colors |-> <<>>,
           polys |-> <<>>, bonevertices |-> <<>>, polytex |-> <<>>]

\* rs: the FragRef objects of a list payload; l: the strings of a name list
PNone ==
  [k |-> "None", r |-> 0, d |-> <<>>, nm |-> NoneName, m |-> NoMesh,
   rs |-> <<>>, l |-> <<>>]

PRef(r) == [PNone EXCEPT !.k = "FragRef", !.r = r]

PDict(kind, r, d) == [PNone EXCEPT !.k = kind, !.r = r, !.d = d]

IsDict(p) == p.k \in {"light_source", "light_info", "mesh", "texbitinfo", "objloc"}

\* a table entry.  wrapped = TRUE: the table holds the decode-time tuple
\* (i, name, type, frag); wrapped = FALSE: it holds the payload itself.
Entry(i, name, type, frag, wrapped) ==
  [i |-> i, name |-> name, type |-> type, frag |-> frag, wrapped |-> wrapped]

\* what indexing a table entry with [3] gives
TupleFrag(e) == e.frag

\* the decode-time tuple seen as a value (what a reference holds if the
\* tuple is not unwrapped)
PTuple(e) == [PNone EXCEPT !.k = "tuple", !.r = e.i]

(***************************************************************************)
(* Wld.getFrag: the FragRef object for an encoded reference.               *)
(***************************************************************************)
FragRefObj(id, name, value) == [id |-> id, name |-> name, value |-> value]

getFrag(ref) ==
  IF ref > 0
  THEN IF (ref - 1) \in DOMAIN frags
       THEN FragRefObj(ref - 1, NoneName, TupleFrag(frags[ref - 1]))
       ELSE FragRefObj(ref - 1, NoneName, PNone)
  ELSE LET name == getString(stringTable, -ref)
       IN IF name \in DOMAIN names
          THEN FragRefObj(-1, name, TupleFrag(names[name]))
          ELSE FragRefObj(-1, name, PNone)

(***************************************************************************)
(* Fragment handlers.  A handler reads from cursor position p on and        *)
(* returns                                                                 *)
(*   ok    FALSE when it raised, with err the exception                    *)
(*   pos   the cursor where it stopped                                     *)
(*   val   the payload it returned                                         *)
(*   refs  the FragRef objects, with the ones it created appended          *)
(***************************************************************************)
HFail(e) == [ok |-> FALSE, err |-> e, pos |-> 0, val |-> PNone, refs |-> refs]

HOk(pos, val, newrefs) ==
  [ok |-> TRUE, err |-> "", pos |-> pos, val |-> val, refs |-> newrefs]

Bit(flags, n) == (flags \div (2 ^ n)) % 2 = 1

\* frag_texunk (0x05), frag_light_sourceref (0x1C), frag_meshref (0x2D):
\* return self.getFrag(self.b.int())
frag_ref(p) ==
  IF ~BufCanRead(b_data, p, 4) THEN HFail("TruncatedDataError")
  ELSE HOk(p + 4, PRef(Len(refs) + 1),
           Append(refs, getFrag(BufInt(b_data, p))))

\* frag_light_source (0x1B)
frag_light_source(p) ==
  IF ~BufCanRead(b_data, p, 8) THEN HFail("TruncatedDataError")
  ELSE LET flags == BufUint(b_data, p)
           p8 == p + 8
       IN IF Bit(flags, 4)
          THEN LET hasAtt == Bit(flags, 3)
                   q == IF hasAtt THEN p8 + 4 ELSE p8
               IN IF ~BufCanRead(b_data, p8, (q - p8) + 16)
                  THEN HFail("TruncatedDataError")
                  ELSE HOk(q + 16,
                           PDict("light_source", 0,
                                 <<IF hasAtt THEN BufUint(b_data, p8)
                                   ELSE DefaultAttenuation,
                                   BufUint(b_data, q + 4), BufUint(b_data, q + 8),
                                   BufUint(b_data, q + 12)>>),
                           refs)
          ELSE IF ~BufCanRead(b_data, p8, 4) THEN HFail("TruncatedDataError")
               ELSE LET c == BufUint(b_data, p8)
                    IN HOk(p8 + 4,
                           PDict("light_source", 0, <<DefaultAttenuation, c, c, c>>),
                           refs)

\* frag_light_info (0x28)
frag_light_info(p) ==
  IF ~BufCanRead(b_data, p, 24) THEN HFail("TruncatedDataError")
  ELSE HOk(p + 24,
           PDict("light_info", Len(refs) + 1,
                 <<BufUint(b_data, p + 4),
                   BufUint(b_data, p + 8), BufUint(b_data, p + 12),
                   BufUint(b_data, p + 16), BufUint(b_data, p + 20)>>),
           Append(refs, getFrag(BufInt(b_data, p))))

\* frag_mesh (0x36).  Vertices, texcoords and normals are kept as the raw
\* values read (before the division by scale and the shift by center).
frag_mesh(p) ==
  IF ~BufCanRead(b_data, p, 92) THEN HFail("TruncatedDataError")
  ELSE
    LET tlistref == BufUint(b_data, p + 4)
        vertcount == BufUshort(b_data, p + 72)
        texcoordcount == BufUshort(b_data, p + 74)
        normalcount == BufUshort(b_data, p + 76)
        colorcount == BufUshort(b_data, p + 78)
        polycount == BufUshort(b_data, p + 80)
        vertpiececount == BufUshort(b_data, p + 82)
        polytexcount == BufUshort(b_data, p + 84)
        tcsize == IF old THEN 4 ELSE 8
        pv == p + 92
        pt == pv + 6 * vertcount
        pn == pt + (IF texcoordcount = 0 THEN 0 ELSE tcsize * texcoordcount)
        pc == pn + 3 * normalcount
        pp == pc + 4 * colorcount
        pb == pp + 8 * polycount
        px == pb + 4 * vertpiececount
        pe == px + 4 * polytexcount
        tcolors == IF colorcount = 0 THEN [j \in 1..vertcount |-> 0]
                   ELSE BufUints(b_data, pc, colorcount)
    IN IF ~BufCanRead(b_data, pv, pp - pv) THEN HFail("TruncatedDataError")
       ELSE IF Len(tcolors) # vertcount THEN HFail("AssertionError")
       ELSE IF ~BufCanRead(b_data, pp, pe - pp) THEN HFail("TruncatedDataError")
       ELSE HOk(pe,
                [PDict("mesh", Len(refs) + 1, <<>>) EXCEPT !.m =
                  [vertices |-> [j \in 1..vertcount |->
                                   BufUshorts(b_data, pv + 6 * (j - 1), 3)],
                   texcoords |-> IF texcoordcount = 0
                                 THEN [j \in 1..vertcount |-> <<0, 0>>]
                                 ELSE [j \in 1..texcoordcount |->
                                         IF old
                                         THEN BufUshorts(b_data, pt + 4 * (j - 1), 2)
                                         ELSE BufUints(b_data, pt + 8 * (j - 1), 2)],
                   normals |-> [j \in 1..normalcount |->
                                  BufRead(b_data, pn + 3 * (j - 1), 3)],
                   colors |-> tcolors,
                   polys |-> [j \in 1..polycount |->
                                <<BufUshort(b_data, pp + 8 * (j - 1)) # 16,
                                  BufUshorts(b_data, pp + 8 * (j - 1) + 2, 3)>>],
                   bonevertices |-> [j \in 1..vertpiececount |->
                                       BufUshorts(b_data, pb + 4 * (j - 1), 2)],
                   polytex |-> [j \in 1..polytexcount |->
                                  BufUshorts(b_data, px + 4 * (j - 1), 2)]]],
                Append(refs, getFrag(tlistref)))

\* n consecutive signed 32-bit values, b.int(n)
BufInts(data, pos, n) == [j \in 1..n |-> BufInt(data, pos + 4 * (j - 1))]

\* the references of ids, appended to the FragRef objects rf2 in order
RECURSIVE RefsOf(_, _)
RefsOf(ids, rf2) ==
  IF ids = <<>> THEN rf2 ELSE RefsOf(Tail(ids), Append(rf2, getFrag(Head(ids))))

\* frag_texname (0x03): size + 1 strings, each a 16-bit length and that many
\* obfuscated bytes, returned decoded without their last character
RECURSIVE ReadNames(_, _, _)
ReadNames(p, n, acc) ==
  IF n = 0 THEN HOk(p, [PNone EXCEPT !.k = "texname", !.l = acc], refs)
  ELSE IF ~BufCanRead(b_data, p, 2) THEN HFail("TruncatedDataError")
  ELSE LET len == BufUshort(b_data, p)
       IN IF ~BufCanRead(b_data, p + 2, len) THEN HFail("TruncatedDataError")
          ELSE LET str == decodeString(BufRead(b_data, p + 2, len))
               IN ReadNames(p + 2 + len, n - 1,
                            Append(acc, SubSeq(str, 1, Len(str) - 1)))

frag_texname(p) ==
  IF ~BufCanRead(b_data, p, 4) THEN HFail("TruncatedDataError")
  ELSE ReadNames(p + 4, BufUint(b_data, p) + 1, <<>>)

\* frag_texbitinfo (0x04)
frag_texbitinfo(p) ==
  IF ~BufCanRead(b_data, p, 8) THEN HFail("TruncatedDataError")
  ELSE LET flags == BufUint(b_data, p)
           size == BufUint(b_data, p + 4)
           p1 == IF Bit(flags, 2) THEN p + 12 ELSE p + 8
           p2 == IF Bit(flags, 3) THEN p1 + 4 ELSE p1
       IN IF ~BufCanRead(b_data, p + 8, p2 - (p + 8)) THEN HFail("TruncatedDataError")
          ELSE IF size > (Len(b_data) - p2) \div 4 THEN HFail("TruncatedDataError")
          ELSE LET params == IF Bit(flags, 3) THEN BufUint(b_data, p1) ELSE 0
                   ids == BufInts(b_data, p2, size)
               IN HOk(p2 + 4 * size,
                      [PDict("texbitinfo", 0, <<params>>) EXCEPT
                         !.rs = [j \in 1..size |-> Len(refs) + j]],
                      RefsOf(ids, refs))

\* renderer flags of a material (zonefile.FLAG_*)
FLAG_MASKED == 1
FLAG_TRANSLUCENT == 2
FLAG_TRANSPARENT == 4

\* a | b on flag sets
RECURSIVE BitOr(_, _)
BitOr(a, b) ==
  IF a = 0 THEN b
  ELSE IF b = 0 THEN a
  ELSE 2 * BitOr(a \div 2, b \div 2) + (IF a % 2 = 1 \/ b % 2 = 1 THEN 1 ELSE 0)

\* a normalization without the override of line 677
saneflagsOf_NoOverride(lo, hi) ==
  LET s0 == IF lo = 0 /\ hi = 0 THEN FLAG_TRANSPARENT ELSE 0
      s1 == IF Bit(lo, 1) \/ Bit(lo, 3) \/ Bit(lo, 4) THEN BitOr(s0, FLAG_MASKED) ELSE s0
  IN IF Bit(lo, 2) \/ Bit(lo, 3) THEN BitOr(s1, FLAG_TRANSLUCENT) ELSE s1

\* lines 669-678: the normalized flags of the raw flags lo + 65536 * hi
\* (every test but flags == 0 looks at the low 16 bits only)
saneflagsOf(lo, hi) ==
  LET s0 == IF lo = 0 /\ hi = 0 THEN FLAG_TRANSPARENT ELSE 0
      s1 == IF Bit(lo, 1) \/ Bit(lo, 3) \/ Bit(lo, 4) THEN BitOr(s0, FLAG_MASKED) ELSE s0
      s2 == IF Bit(lo, 2) \/ Bit(lo, 3) THEN BitOr(s1, FLAG_TRANSLUCENT) ELSE s1
  IN IF lo = 20 THEN 0 ELSE s2

\* frag_texref (0x30): the tuple (saneflags, reference)
frag_texref(p) ==
  IF ~BufCanRead(b_data, p, 8) THEN HFail("TruncatedDataError")
  ELSE LET pairflags == BufUint(b_data, p)
           q == IF Bit(pairflags, 1) THEN p + 28 ELSE p + 20
       IN IF ~BufCanRead(b_data, q, 4) THEN HFail("TruncatedDataError")
          ELSE HOk(q + 4,
                   [PNone EXCEPT !.k = "texref", !.r = Len(refs) + 1,
                      !.d = <<saneflagsOf(BufUshort(b_data, p + 4),
                                          BufUshort(b_data, p + 6))>>],
                   Append(refs, getFrag(BufInt(b_data, q))))

\* frag_texlist (0x31): the references of the ids that are > 0
RECURSIVE PositiveIds(_)
PositiveIds(ids) ==
  IF ids = <<>> THEN <<>>
  ELSE (IF Head(ids) > 0 THEN <<Head(ids)>> ELSE <<>>) \o PositiveIds(Tail(ids))

frag_texlist(p) ==
  IF ~BufCanRead(b_data, p, 8) THEN HFail("TruncatedDataError")
  ELSE LET count == BufUint(b_data, p + 4)
       IN IF count > (Len(b_data) - (p + 8)) \div 4 THEN HFail("TruncatedDataError")
          ELSE LET ids == PositiveIds(BufUints(b_data, p + 8, count))
               IN HOk(p + 8 + 4 * count,
                      [PNone EXCEPT !.k = "texlist",
                         !.rs = [j \in 1..Len(ids) |-> Len(refs) + j]],
                      RefsOf(ids, refs))

\* Buffer.float for a 32-bit IEEE-754 value that is a whole number (the
\* model's streams hold no other)
BufFloat(data, pos) ==
  LET sign == IF data[pos + 4] >= 128 THEN -1 ELSE 1
      exp == 2 * (data[pos + 4] % 128) + (data[pos + 3] \div 128)
      mant == data[pos + 1] + 256 * data[pos + 2] + 65536 * (data[pos + 3] % 128)
  IN IF exp = 0 THEN 0
     ELSE IF exp >= 150 THEN sign * (8388608 + mant) * (2 ^ (exp - 150))
     ELSE sign * ((8388608 + mant) \div (2 ^ (150 - exp)))

BufFloats(data, pos, n) == [j \in 1..n |-> BufFloat(data, pos + 4 * (j - 1))]

\* a conversion in which 512 units are half a turn
RotationOf_HalfTurn(u) == (u * 180 * 1000) \div (512 * 180)

\* lines 604-608: u / 512.0 * 360.0 * pi / 180.0, in thousandths of pi
RotationOf(u) == (u * 360 * 1000) \div (512 * 180)

\* frag_objloc (0x15); d holds position, rotation, scale and nameoff
frag_objloc(p) ==
  IF ~BufCanRead(b_data, p, 56) THEN HFail("TruncatedDataError")
  ELSE LET sref == BufInt(b_data, p)
           pos == BufFloats(b_data, p + 12, 3)
           rot == BufFloats(b_data, p + 24, 3)
           scale == BufFloats(b_data, p + 36, 3)
           s == IF scale[3] > 0 THEN scale[3] ELSE 1
       IN HOk(p + 56,
              PDict("objloc", 0,
                    pos \o <<RotationOf(rot[3]), RotationOf(rot[2]), RotationOf(rot[1])>>
                    \o <<s, s, s, sref>>),
              refs)

\* the fragment types of the handler registry that the model's streams use
T_texname == 3
T_texbitinfo == 4
T_texunk == 5
T_objloc == 21
T_light_source == 27
T_light_sourceref == 28
T_light_info == 40
T_meshref == 45
T_texref == 48
T_texlist == 49
T_mesh == 54

fragHandlers == {T_texname, T_texbitinfo, T_texunk, T_objloc, T_light_source,
                 T_light_sourceref, T_light_info, T_meshref, T_texref,
                 T_texlist, T_mesh}

\* fragHandlers[type](self)
CallHandler(type, p) ==
  IF type \in {T_texunk, T_light_sourceref, T_meshref} THEN frag_ref(p)
  ELSE IF type = T_light_source THEN frag_light_source(p)
  ELSE IF type = T_light_info THEN frag_light_info(p)
  ELSE IF type = T_texname THEN frag_texname(p)
  ELSE IF type = T_texbitinfo THEN frag_texbitinfo(p)
  ELSE IF type = T_texref THEN frag_texref(p)
  ELSE IF type = T_texlist THEN frag_texlist(p)
  ELSE IF type = T_objloc THEN frag_objloc(p)
  ELSE frag_mesh(p)

(***************************************************************************)
(* Wld.__init__                                                            *)
(***************************************************************************)
\* lines 65-80: the header
WldHeader ==
  /\ wpc = "start"
  /\ IF ~BufCanRead(b_data, 0, 28)
     THEN /\ wpc' = "raised" /\ werr' = "TruncatedDataError" /\ wsite' = "header"
          /\ UNCHANGED <<b_pos, old, fragCount, stringTable>>
     ELSE IF BufUint(b_data, 0) # WldMagic
     THEN /\ wpc' = "raised" /\ werr' = "AssertionError" /\ wsite' = "header"
          /\ UNCHANGED <<b_pos, old, fragCount, stringTable>>
     ELSE LET hashlen == BufUint(b_data, 20)
          IN IF ~BufCanRead(b_data, 28, hashlen)
             THEN /\ wpc' = "raised" /\ werr' = "TruncatedDataError"
                  /\ wsite' = "header"
                  /\ UNCHANGED <<b_pos, old, fragCount, stringTable>>
             ELSE /\ old' = (BufUint(b_data, 4) = WldOldMagic)
                  /\ fragCount' = BufUint(b_data, 8)
                  /\ stringTable' = decodeString(BufRead(b_data, 28, hashlen))
                  /\ b_pos' = 28 + hashlen
                  /\ wpc' = "table"
                  /\ UNCHANGED <<werr, wsite>>
  /\ UNCHANGED <<b_data, baked, frags, names, byType, idx, refs, walk, calls,
                 nonWldVars>>

\* a table pass that leaves the cursor where the handler stopped
PosAfterFragment_NoSeek(epos, hpos) == hpos

\* line 99: where the cursor is left after a fragment, given the declared
\* end epos and the position hpos at which the handler stopped
PosAfterFragment(epos, hpos) == epos

\* line 93: whether the fragment is stored in the name table
StoredByName(name, type) == name # <<>> \/ type = T_texunk

\* lines 81-99: one iteration of the fragment table pass
WldFragment ==
  /\ wpc = "table"
  /\ idx < fragCount
  /\ IF ~BufCanRead(b_data, b_pos, 12)
     THEN /\ wpc' = "raised" /\ werr' = "TruncatedDataError" /\ wsite' = "entry"
          /\ UNCHANGED <<b_pos, frags, names, byType, idx, refs, walk>>
     ELSE
       LET start == b_pos
           size == BufUint(b_data, start)
           type == BufUint(b_data, start + 4)
           nameoff == BufInt(b_data, start + 8)
           name == IF nameoff # NoNameOffset
                   THEN getString(stringTable, -nameoff) ELSE NoneName
           epos == PosAdd(start + 8, size)
           reg == type \in fragHandlers
           h == CallHandler(type, start + 12)
       IN IF reg /\ ~h.ok
          THEN /\ wpc' = "raised" /\ werr' = h.err /\ wsite' = "handler"
               /\ b_pos' = start + 12
               /\ UNCHANGED <<frags, names, byType, idx, refs, walk>>
          ELSE
            LET val == IF reg THEN h.val ELSE PNone
                frag == IF IsDict(val) THEN [val EXCEPT !.nm = name] ELSE val
                e == Entry(idx, name, type, frag, TRUE)
                hpos == IF reg THEN h.pos ELSE start + 12
            IN /\ refs' = IF reg THEN h.refs ELSE refs
               /\ frags' = (idx :> e) @@ frags
               /\ names' = IF StoredByName(name, type)
                           THEN (name :> e) @@ names ELSE names
               /\ byType' = IF type \in DOMAIN byType
                            THEN [byType EXCEPT ![type] = Append(@, e)]
                            ELSE (type :> <<e>>) @@ byType
               /\ b_pos' = PosAfterFragment(epos, hpos)
               /\ idx' = idx + 1
               /\ walk' = Append(walk,
                                 [start |-> start, size |-> size, type |-> type,
                                  reg |-> reg,
                                  used |-> hpos - (start + 12),
                                  after |-> PosAfterFragment(epos, hpos)])
               /\ UNCHANGED <<wpc, werr, wsite>>
  /\ UNCHANGED <<b_data, old, fragCount, stringTable, baked, calls, nonWldVars>>

\* the entries of table f in ascending fragment index, those of type t only
RECURSIVE EntriesOfType(_, _, _)
EntriesOfType(f, t, i) ==
  IF i \notin DOMAIN f THEN <<>>
  ELSE (IF f[i].type = t THEN <<[f[i] EXCEPT !.wrapped = FALSE]>> ELSE <<>>)
       \o EntriesOfType(f, t, i + 1)

\* line 105, nnames[name] = frag in ascending i: the last fragment of a name wins
BakedNames(f) ==
  [n \in {f[i].name : i \in DOMAIN f} |->
     LET last == CHOOSE i \in DOMAIN f :
                   /\ f[i].name = n
                   /\ \A j \in DOMAIN f : f[j].name = n => j <= i
     IN [f[last] EXCEPT !.wrapped = FALSE]]

\* lines 101-109: the rebake pass, run when the table pass has ended
WldBake ==
  /\ wpc = "table"
  /\ idx >= fragCount
  /\ byType' = [t \in DOMAIN byType |-> EntriesOfType(frags, t, 0)]
  /\ frags' = [i \in DOMAIN frags |-> [frags[i] EXCEPT !.wrapped = FALSE]]
  /\ names' = BakedNames(frags)
  /\ baked' = TRUE
  /\ wpc' = "ready"
  /\ UNCHANGED <<b_data, b_pos, old, fragCount, stringTable, idx, werr, wsite,
                 refs, walk, calls, nonWldVars>>

(***************************************************************************)
(* FragRef.resolve                                                         *)
(***************************************************************************)
\* a lookup that does not unwrap the decode-time tuple
TableValue_Tuple(e, bk) == IF e.wrapped THEN PTuple(e) ELSE e.frag

\* lines 23-25 and 27-29: the value taken from a table entry
TableValue(e, bk) ==
  IF ~bk THEN TupleFrag(e)
  ELSE IF e.wrapped THEN PTuple(e) ELSE e.frag

\* a resolve() that looks the target up although a value is cached
ResolveLookup_NoCache(o) ==
  IF o.id # -1
  THEN IF o.id \in DOMAIN frags
       THEN [err |-> "", v |-> TableValue(frags[o.id], baked), look |-> 1]
       ELSE [err |-> "KeyError", v |-> PNone, look |-> 1]
  ELSE IF o.name \in DOMAIN names
       THEN [err |-> "", v |-> TableValue(names[o.name], baked), look |-> 1]
       ELSE [err |-> "KeyError", v |-> PNone, look |-> 1]

\* lines 20-29: the value of reference object o after the lookup, with the
\* number of table lookups made; err = "KeyError" when the table has no
\* such key (a dict subscript)
ResolveLookup(o) ==
  IF o.value.k # "None"
  THEN [err |-> "", v |-> o.value, look |-> 0]
  ELSE IF o.id # -1
  THEN IF o.id \in DOMAIN frags
       THEN [err |-> "", v |-> TableValue(frags[o.id], baked), look |-> 1]
       ELSE [err |-> "KeyError", v |-> PNone, look |-> 1]
  ELSE IF o.name # NoneName
  THEN IF o.name \in DOMAIN names
       THEN [err |-> "", v |-> TableValue(names[o.name], baked), look |-> 1]
       ELSE [err |-> "KeyError", v |-> PNone, look |-> 1]
  ELSE [err |-> "", v |-> PNone, look |-> 0]

\* a resolve() that returns the nested call's value without storing it
AfterNested_NoStore(heap, r, v) == heap

\* lines 30-32: what a frame does with the value the nested call returned
AfterNested(heap, r, v) == [heap EXCEPT ![r].value = v]

\* resolve() of reference object r on heap, as frame number depth.
\* Result: the heap afterwards, out ("ok" or the exception that left the
\* call), the value returned, the number of table lookups made, and the
\* reference objects resolve() was called on.
RECURSIVE Resolve(_, _, _)
Resolve(r, heap, depth) ==
  LET lk == ResolveLookup(heap[r])
      heap1 == [heap EXCEPT ![r].value = lk.v]
  IN IF lk.err # ""
     THEN [heap |-> heap, out |-> lk.err, val |-> PNone, look |-> lk.look,
           chain |-> <<r>>]
     ELSE IF lk.v.k = "FragRef"
     THEN IF depth >= RecursionLimit
          THEN [heap |-> heap1, out |-> "RecursionError", val |-> PNone,
                look |-> lk.look, chain |-> <<r>>]
          ELSE LET in == Resolve(lk.v.r, heap1, depth + 1)
               IN IF in.out # "ok"
                  THEN [in EXCEPT !.look = @ + lk.look, !.chain = <<r>> \o @]
                  ELSE [heap |-> AfterNested(in.heap, r, in.val), out |-> "ok",
                        val |-> in.val, look |-> in.look + lk.look,
                        chain |-> <<r>> \o in.chain]
     ELSE [heap |-> heap1, out |-> "ok", val |-> lk.v, look |-> lk.look,
           chain |-> <<r>>]

\* Where the chain of reference object r ends when it is followed on heap
\* without caching, for at most n further references: the terminal payload,
\* or a value of kind "missing" (a reference whose index or name has no
\* fragment) or "cycle" (more references than there are objects).
ChainTarget(o) ==
  IF o.value.k # "None" THEN o.value
  ELSE IF o.id # -1
  THEN IF o.id \in DOMAIN frags THEN frags[o.id].frag
       ELSE [PNone EXCEPT !.k = "missing"]
  ELSE IF o.name \in DOMAIN names THEN names[o.name].frag
       ELSE [PNone EXCEPT !.k = "missing"]

RECURSIVE ChainEnd(_, _, _)
ChainEnd(r, heap, n) ==
  LET t == ChainTarget(heap[r])
  IN IF t.k # "FragRef" THEN t
     ELSE IF n = 0 THEN [PNone EXCEPT !.k = "cycle"]
     ELSE ChainEnd(t.r, heap, n - 1)

\* the client calls resolve() on one of the reference objects of a
\* constructed Wld
ResolveCall ==
  /\ wpc = "ready"
  /\ Len(calls) < MaxCalls
  /\ \E r \in 1..Len(refs) :
       LET res == Resolve(r, refs, 1)
       IN /\ refs' = res.heap
          /\ calls' = Append(calls,
                             [r |-> r, out |-> res.out, val |-> res.val,
                              look |-> res.look, chain |-> res.chain,
                              baked |-> baked,
                              before |-> refs[r].value,
                              end |-> ChainEnd(r, refs, Len(refs)),
                              cached |-> [j \in 1..Len(res.chain) |->
                                            res.heap[res.chain[j]].value]])
  /\ UNCHANGED <<b_data, b_pos, old, fragCount, stringTable, baked, frags, names,
                 byType, idx, wpc, werr, wsite, walk, nonWldVars>>

\* resolve() called on a reference object while the table pass is under
\* way, before the rebake (no handler of src/wld.py does so; lines 24-25 and
\* 28-29 of resolve() are there for such a caller)
ResolveEarly ==
  /\ wpc = "table"
  /\ Len(calls) < MaxCalls
  /\ \E r \in 1..Len(refs) :
       LET res == Resolve(r, refs, 1)
       IN /\ refs' = res.heap
          /\ calls' = Append(calls,
                             [r |-> r, out |-> res.out, val |-> res.val,
                              look |-> res.look, chain |-> res.chain,
                              baked |-> baked,
                              before |-> refs[r].value,
                              end |-> ChainEnd(r, refs, Len(refs)),
                              cached |-> [j \in 1..Len(res.chain) |->
                                            res.heap[res.chain[j]].value]])
  /\ UNCHANGED <<b_data, b_pos, old, fragCount, stringTable, baked, frags, names,
                 byType, idx, wpc, werr, wsite, walk, nonWldVars>>

(***************************************************************************)
(* Input streams.                                                          *)
(***************************************************************************)
\* the plain string table "\0A\0B\0": offset 0 is "", 1 is "A", 3 is "B"
StrTabPlain == <<0, 65, 0, 66, 0>>

\* second header word: the old sub-version, and the new one
Versions == {WldOldMagic, 268486656}

\* one fragment table entry: the 12-byte header and the bytes after it
FragBytes(size, type, nameoff, body) ==
  LE32(size) \o LE32(type) \o LE32(nameoff) \o body

\* a whole stream with string table tab: header, obfuscated string table,
\* fragments
WldStreamTab(tab, version, count, fragSeq) ==
  LE32(WldMagic) \o LE32(version) \o LE32(count) \o Zeros(8)
  \o LE32(Len(tab)) \o Zeros(4) \o decodeString(tab)
  \o Concat(fragSeq)

\* a whole stream with the plain string table
WldStream(version, count, fragSeq) == WldStreamTab(StrTabPlain, version, count, fragSeq)

\* the payload of a mesh fragment with zero-filled arrays; texcoords are
\* laid out tcsize bytes each
MeshBody(tlistref, vc, tcc, nc, cc, pc, vpc, ptc, tcsize) ==
  LE32(0) \o LE32(tlistref) \o LE32(0) \o Zeros(60)
  \o LE16(vc) \o LE16(tcc) \o LE16(nc) \o LE16(cc)
  \o LE16(pc) \o LE16(vpc) \o LE16(ptc) \o LE16(0)
  \o LE16(0) \o LE16(0)
  \o Zeros(6 * vc) \o Zeros(tcsize * tcc) \o Zeros(3 * nc) \o Zeros(4 * cc)
  \o Zeros(8 * pc) \o Zeros(4 * vpc) \o Zeros(4 * ptc)

\* an unregistered fragment type (no handler in the registry)
T_unregistered == 34

SeqsUpTo(S, n) == UNION {[1..k -> S] : k \in 1..n}

\* fragments of the table-walk specification
WalkFragChoices ==
  { FragBytes(8, T_texunk, NoNameOffset, LE32(1)),
    \* the handler reads 4 of the 8 payload bytes
    FragBytes(12, T_texunk, -1, LE32(2) \o Zeros(4)),
    \* the handler reads 4 bytes, the declared payload has none
    FragBytes(4, T_light_sourceref, NoNameOffset, <<>>),
    FragBytes(8, T_unregistered, -3, Zeros(4)),
    FragBytes(16, T_light_source, -3, LE32(0) \o LE32(0) \o LE32(7)),
    \* a mesh with 1 vertex, 1 texcoord (8 bytes), 1 normal, no colours
    FragBytes(4 + 109, T_mesh, -1, MeshBody(1, 1, 1, 1, 0, 0, 0, 0, 8)),
    \* a mesh with 1 vertex and 2 colours: the colour-count check fails
    FragBytes(4 + 109, T_mesh, NoNameOffset, MeshBody(1, 1, 0, 1, 2, 0, 0, 0, 8)) }

WalkStreams ==
  { WldStream(v, Len(fs) + extra, fs) :
      v \in Versions, extra \in {0, 1}, fs \in SeqsUpTo(WalkFragChoices, MaxWalkFrags) }
  \cup { LE32(0) \o Zeros(24), LE32(WldMagic) }

\* fragments of the reference-resolution specification
RefFragChoices ==
  { FragBytes(8, T_texunk, NoNameOffset, LE32(1)),
    FragBytes(8, T_texunk, NoNameOffset, LE32(2)),
    FragBytes(8, T_light_sourceref, -1, LE32(3)),
    FragBytes(8, T_texunk, 0, LE32(-1)),
    FragBytes(8, T_light_sourceref, NoNameOffset, LE32(4)),
    FragBytes(16, T_light_source, -1, LE32(0) \o LE32(0) \o LE32(7)),
    FragBytes(8, T_unregistered, NoNameOffset, Zeros(4)),
    FragBytes(28, T_light_info, NoNameOffset, LE32(2) \o Zeros(20)) }

RefStreams ==
  { WldStream(WldOldMagic, Len(fs), fs) : fs \in SeqsUpTo(RefFragChoices, MaxRefFrags) }

(***************************************************************************)
(* Specifications of the Wld constructor.                                  *)
(***************************************************************************)
S3dIdle ==
  /\ a_data = <<>> /\ a_pos = 0 /\ a_i = 0 /\ a_count = 0 /\ a_offset = 0
  /\ directory = <<>> /\ filelist = <<>> /\ files = <<>> /\ entries = <<>>
  /\ binds = <<>> /\ spc = "idle" /\ serr = "" /\ ssite = ""

\* decodeString has no client
CodecIdle == c_in = <<>> /\ c_out = <<>> /\ c_n = 0

\* the zone before any walk: no object but the world object, which has no mesh
EmptyZone == [zoneobj |-> <<>>, objects |-> <<>>, placeables |-> <<>>, lights |-> <<>>]

\* no walk has been called; the Wld was given the archive mapping m
AsmStart(m) ==
  /\ s3d = m /\ texture_warnings = <<>> /\ zone = EmptyZone
  /\ apc = "" /\ aerr = "" /\ nwalks = 0 /\ awalk = "" /\ runs = <<>>
  /\ printed = <<>>

\* the state when Wld.__init__ is entered with stream data
WldStart(data) ==
  /\ b_data = data /\ b_pos = 0 /\ old = FALSE /\ fragCount = 0
  /\ stringTable = <<>> /\ baked = FALSE
  /\ frags = <<>> /\ names = <<>> /\ byType = <<>>
  /\ idx = 0 /\ wpc = "start" /\ werr = "" /\ wsite = "" /\ refs = <<>> /\ walk = <<>>
  /\ calls = <<>>

InitWalk ==
  (\E data \in WalkStreams : WldStart(data)) /\ S3dIdle /\ CodecIdle /\ AsmStart(<<>>)

NextWalk == WldHeader \/ WldFragment \/ WldBake

SpecWalk == InitWalk /\ [][NextWalk]_vars

InitRef ==
  (\E data \in RefStreams : WldStart(data)) /\ S3dIdle /\ CodecIdle /\ AsmStart(<<>>)

NextRef == WldHeader \/ WldFragment \/ WldBake \/ ResolveCall

SpecRef == InitRef /\ [][NextRef]_vars

(***************************************************************************)
(* Claims about the fragment table pass (SpecWalk).                        *)
(***************************************************************************)
\* the declared end of the fragment whose header was read at start:
\* the position right after the nameOffset field, plus size - 4
DeclaredEnd(w) == PosAdd(w.start + 12 - 4, w.size)

\* C1: once a fragment has been processed the cursor is at that fragment's
\* declared end, whether its type has no handler, its handler read fewer
\* bytes than the payload or more; so the header of the next fragment is
\* read from the declared end of the one before.
C1_CursorAtDeclaredEnd ==
  /\ \A k \in 1..Len(walk) : walk[k].after = DeclaredEnd(walk[k])
  /\ \A k \in 1..(Len(walk) - 1) : walk[k + 1].start = DeclaredEnd(walk[k])
  /\ (wpc = "table" /\ walk # <<>>) => b_pos = DeclaredEnd(walk[Len(walk)])

\* C1 witness: one walk has processed a fragment without handler, one whose
\* handler read fewer bytes than declared and one whose handler read more
C1_Witness ==
  /\ \E k \in 1..Len(walk) : ~walk[k].reg
  /\ \E k \in 1..Len(walk) : walk[k].reg /\ walk[k].used < walk[k].size - 4
  /\ \E k \in 1..Len(walk) : walk[k].reg /\ walk[k].used > walk[k].size - 4

\* C2: a handler that fails part-way (a read past the buffer end, a failed
\* internal check) does not abort the table walk: the constructor never
\* ends with the exception of a handler.
C2_HandlerFailureIsSkipped == ~(wpc = "raised" /\ wsite = "handler")

(***************************************************************************)
(* Claims about FragRef.resolve (SpecRef).                                 *)
(***************************************************************************)
\* C3 as stated: a second resolve() of a reference returns the value of the
\* first and makes no table lookup.
C3_SecondCallNoLookup ==
  \A i, j \in 1..Len(calls) :
    (i < j /\ calls[i].r = calls[j].r /\ calls[i].out = "ok")
      => /\ calls[j].out = "ok"
         /\ calls[j].val = calls[i].val
         /\ calls[j].look = 0

\* C3 as amended: once resolve() has returned a value other than None, a
\* later resolve() of the same reference returns that value and makes no
\* table lookup.
C3_ResolvedValueIsCached ==
  \A i, j \in 1..Len(calls) :
    (i < j /\ calls[i].r = calls[j].r /\ calls[i].out = "ok"
       /\ calls[i].val.k # "None")
      => /\ calls[j].out = "ok"
         /\ calls[j].val = calls[i].val
         /\ calls[j].look = 0

\* C3 witness: a reference created without a value was resolved by a table
\* lookup, and resolved again without one
C3_Witness ==
  \E i, j \in 1..Len(calls) :
    /\ i < j /\ calls[i].r = calls[j].r
    /\ calls[i].before.k = "None" /\ calls[i].look > 0
    /\ calls[i].out = "ok" /\ calls[i].val.k # "None"
    /\ calls[j].out = "ok" /\ calls[j].look = 0

C5_MissingTargetIsUnresolved ==
  \A k \in 1..Len(calls) :
    calls[k].end.k = "missing" => (calls[k].out = "ok" /\ calls[k].val = PNone)

\* C6: on a reference cycle resolve() ends by reporting a format error.
C6_CycleIsFormatError ==
  \A k \in 1..Len(calls) :
    calls[k].end.k = "cycle" => calls[k].out = "FormatError"

(***************************************************************************)
(* readS3D (src/s3d.py)                                                    *)
(***************************************************************************)
\* the magic tag b"PFS "
PfsMagic == <<80, 70, 83, 32>>

\* zlib.decompress, a library function, is represented by a run-length
\* code: the compressed bytes are pairs (n, v), each standing for n bytes v.
\* The empty input and an input of odd length are invalid (zlib.error).
InflateOk(blob) == Len(blob) > 0 /\ Len(blob) % 2 = 0

RECURSIVE Rep(_, _)
Rep(n, v) == IF n <= 0 THEN <<>> ELSE <<v>> \o Rep(n - 1, v)

RECURSIVE Inflate(_)
Inflate(blob) ==
  IF Len(blob) < 2 THEN <<>>
  ELSE Rep(blob[1], blob[2]) \o Inflate(SubSeq(blob, 3, Len(blob)))

\* lines 5-12: open, magic check, position at the directory table
S3dOpen ==
  /\ spc = "start"
  /\ IF ~BufCanRead(a_data, 0, 8)
     THEN /\ spc' = "raised" /\ serr' = "TruncatedDataError" /\ ssite' = "open"
          /\ UNCHANGED <<a_pos, a_count, a_offset>>
     ELSE IF BufRead(a_data, 4, 4) # PfsMagic
     THEN /\ spc' = "raised" /\ serr' = "AssertionError" /\ ssite' = "magic"
          /\ UNCHANGED <<a_pos, a_count, a_offset>>
     ELSE LET offset == BufUint(a_data, 0)
          IN IF ~BufCanRead(a_data, offset, 4)
             THEN /\ spc' = "raised" /\ serr' = "TruncatedDataError"
                  /\ ssite' = "open"
                  /\ UNCHANGED <<a_pos, a_count, a_offset>>
             ELSE /\ a_offset' = offset
                  /\ a_count' = BufUint(a_data, offset)
                  /\ a_pos' = offset + 4
                  /\ spc' = "entries"
                  /\ UNCHANGED <<serr, ssite>>
  /\ UNCHANGED <<a_data, a_i, directory, filelist, files, entries, binds, nonS3dVars>>

\* line 20: whether the chunk loop reads another chunk
MoreChunks(data, size) == Len(data) < size

\* lines 19-22: the chunk loop, from position pos with data accumulated.
\* Result: ok (FALSE when a read or the decompression failed, with err),
\* the data, the position reached and the chunks read, each with its
\* compressed length, its stated and its actual decompressed length.
RECURSIVE ReadChunks(_, _, _, _)
ReadChunks(data, pos, size, chunks) ==
  IF ~MoreChunks(data, size)
  THEN [ok |-> TRUE, err |-> "", data |-> data, pos |-> pos, chunks |-> chunks]
  ELSE IF ~BufCanRead(a_data, pos, 8)
  THEN [ok |-> FALSE, err |-> "TruncatedDataError", data |-> data, pos |-> pos,
        chunks |-> chunks]
  ELSE LET deflen == BufUint(a_data, pos)
           inflen == BufUint(a_data, pos + 4)
       IN IF ~BufCanRead(a_data, pos + 8, deflen)
          THEN [ok |-> FALSE, err |-> "TruncatedDataError", data |-> data,
                pos |-> pos + 8, chunks |-> chunks]
          ELSE LET blob == BufRead(a_data, pos + 8, deflen)
               IN IF ~InflateOk(blob)
                  THEN [ok |-> FALSE, err |-> "zlib.error", data |-> data,
                        pos |-> pos + 8 + deflen, chunks |-> chunks]
                  ELSE ReadChunks(data \o Inflate(blob), pos + 8 + deflen, size,
                                  Append(chunks,
                                         [deflen |-> deflen, inflen |-> inflen,
                                          outlen |-> Len(Inflate(blob))]))

\* line 23: whether the entry is the directory
IsDirectory(crc) == crc = DirectoryCrc

\* lines 23-24: the directory blob after an entry with this checksum and data
DirectoryAfter(dir, crc, data) == IF IsDirectory(crc) THEN <<data>> ELSE dir

FilelistAfter_KeepAll(l, crc, foff, data) ==
  Append(l, [foff |-> foff, data |-> data])

\* lines 23-26: the file list after an entry with this checksum, offset and data
FilelistAfter(l, crc, foff, data) ==
  IF IsDirectory(crc) THEN l ELSE Append(l, [foff |-> foff, data |-> data])

\* lines 14-26: one entry of the directory table
S3dEntry ==
  /\ spc = "entries"
  /\ a_i < a_count
  /\ LET tpos == a_offset + 4 + a_i * 12
     IN IF ~BufCanRead(a_data, tpos, 12)
        THEN /\ spc' = "raised" /\ serr' = "TruncatedDataError" /\ ssite' = "entry"
             /\ a_pos' = tpos
             /\ UNCHANGED <<a_i, directory, filelist, entries>>
        ELSE
          LET crc == BufUint(a_data, tpos)
              foff == BufUint(a_data, tpos + 4)
              size == BufUint(a_data, tpos + 8)
              rd == ReadChunks(<<>>, foff, size, <<>>)
          IN IF ~rd.ok
             THEN /\ spc' = "raised" /\ serr' = rd.err /\ ssite' = "chunk"
                  /\ a_pos' = rd.pos
                  /\ UNCHANGED <<a_i, directory, filelist, entries>>
             ELSE /\ a_pos' = rd.pos
                  /\ a_i' = a_i + 1
                  /\ directory' = DirectoryAfter(directory, crc, rd.data)
                  /\ filelist' = FilelistAfter(filelist, crc, foff, rd.data)
                  /\ entries' = Append(entries,
                                       [crc |-> crc, foff |-> foff, size |-> size,
                                        data |-> rd.data, chunks |-> rd.chunks])
                  /\ UNCHANGED <<spc, serr, ssite>>
  /\ UNCHANGED <<a_data, a_count, a_offset, files, binds, nonS3dVars>>

\* line 28: filelist.sort(key=lambda x: x[0]), a stable sort by file offset
RECURSIVE InsertByFoff(_, _)
InsertByFoff(x, sorted) ==
  IF sorted = <<>> THEN <<x>>
  ELSE IF x.foff < Head(sorted).foff THEN <<x>> \o sorted
  ELSE <<Head(sorted)>> \o InsertByFoff(x, Tail(sorted))

SortByFoff_TableOrder(l) == l

RECURSIVE SortByFoff(_)
SortByFoff(l) ==
  IF l = <<>> THEN <<>>
  ELSE InsertByFoff(l[Len(l)], SortByFoff(SubSeq(l, 1, Len(l) - 1)))

\* bytes.strip(b"\0"): NUL bytes removed at both ends
RECURSIVE StripNulLeft(_)
StripNulLeft(s) ==
  IF s # <<>> /\ Head(s) = 0 THEN StripNulLeft(Tail(s)) ELSE s

RECURSIVE StripNulRight(_)
StripNulRight(s) ==
  IF s # <<>> /\ s[Len(s)] = 0 THEN StripNulRight(SubSeq(s, 1, Len(s) - 1)) ELSE s

StripNul(s) == StripNulRight(StripNulLeft(s))

\* decode("utf-8", errors="ignore") on names of one-byte characters:
\* a byte that is no ASCII character is dropped
DecodeIgnore(s) == SelectSeq(s, LAMBDA c : c < 128)

\* str.lower() on ASCII letters
Lower(s) == [j \in 1..Len(s) |-> IF s[j] >= 65 /\ s[j] <= 90 THEN s[j] + 32 ELSE s[j]]

\* line 35-36: the key a stored filename is filed under
FileKey(raw) == Lower(DecodeIgnore(StripNul(raw)))

\* line 32: the check of the declared file count against the files found
CountMatches_Any(declared, found) == TRUE

CountMatches(declared, found) == declared = found

\* lines 34-36: the filenames of the directory blob dir from position pos on,
\* bound in order to the files of list l
RECURSIVE BindNames(_, _, _, _)
BindNames(dir, pos, l, acc) ==
  IF l = <<>> THEN [ok |-> TRUE, binds |-> acc]
  ELSE IF ~BufCanRead(dir, pos, 4) THEN [ok |-> FALSE, binds |-> acc]
  ELSE LET n == BufUint(dir, pos)
       IN IF ~BufCanRead(dir, pos + 4, n) THEN [ok |-> FALSE, binds |-> acc]
          ELSE BindNames(dir, pos + 4 + n, Tail(l),
                         Append(acc, [fn |-> FileKey(BufRead(dir, pos + 4, n)),
                                      foff |-> Head(l).foff,
                                      data |-> Head(l).data]))

\* files[fn] = data for the bindings in order: a later one replaces an
\* earlier one of the same key
RECURSIVE FilesOf(_)
FilesOf(bs) ==
  IF bs = <<>> THEN <<>>
  ELSE LET b == bs[Len(bs)]
       IN (b.fn :> b.data) @@ FilesOf(SubSeq(bs, 1, Len(bs) - 1))

\* lines 28-37: after the last entry
S3dFinish ==
  /\ spc = "entries"
  /\ a_i >= a_count
  /\ LET sorted == SortByFoff(filelist)
     IN /\ filelist' = sorted
        /\ IF directory = <<>>
           THEN /\ spc' = "raised" /\ serr' = "AssertionError" /\ ssite' = "directory"
                /\ UNCHANGED <<files, binds>>
           ELSE LET dir == directory[1]
                IN IF ~BufCanRead(dir, 0, 4)
                   THEN /\ spc' = "raised" /\ serr' = "TruncatedDataError"
                        /\ ssite' = "count"
                        /\ UNCHANGED <<files, binds>>
                   ELSE IF ~CountMatches(BufUint(dir, 0), Len(sorted))
                   THEN /\ spc' = "raised" /\ serr' = "AssertionError"
                        /\ ssite' = "count"
                        /\ UNCHANGED <<files, binds>>
                   ELSE LET bn == BindNames(dir, 4, sorted, <<>>)
                        IN IF ~bn.ok
                           THEN /\ spc' = "raised" /\ serr' = "TruncatedDataError"
                                /\ ssite' = "names"
                                /\ UNCHANGED <<files, binds>>
                           ELSE /\ files' = FilesOf(bn.binds)
                                /\ binds' = bn.binds
                                /\ spc' = "returned"
                                /\ UNCHANGED <<serr, ssite>>
  /\ UNCHANGED <<a_data, a_pos, a_i, a_count, a_offset, directory, entries, nonS3dVars>>

(***************************************************************************)
(* Archives readS3D is run on                                              *)
(***************************************************************************)
MaxFiles == 2

\* the compressed form of bytes under the run-length code
Deflate(bytes) == Concat([j \in 1..Len(bytes) |-> <<1, bytes[j]>>])

\* one chunk: compressed length, stated decompressed length, compressed bytes
Chunk(inflen, blob) == LE32(Len(blob)) \o LE32(inflen) \o blob

\* the chunk sequences of a file, with the size its table entry declares
FileChoices ==
  { [size |-> 2, bytes |-> Chunk(2, <<2, 7>>)],
    [size |-> 3, bytes |-> Chunk(2, <<2, 8>>) \o Chunk(1, <<1, 9>>)],
    [size |-> 2, bytes |-> Chunk(3, <<3, 5>>)],
    [size |-> 2, bytes |-> Chunk(5, <<2, 6>>)],
    [size |-> 1, bytes |-> Chunk(0, <<0, 1>>) \o Chunk(1, <<1, 4>>)],
    [size |-> 4, bytes |-> Chunk(2, <<2, 3>>)],
    [size |-> 1, bytes |-> Chunk(1, <<1>>)],
    [size |-> 1, bytes |-> LE32(200) \o LE32(1) \o <<1, 2>>] }

\* the chunk sequence of the files of an archive that is not well-formed
PlainFile == [size |-> 2, bytes |-> Chunk(2, <<2, 7>>)]

\* stored filenames: "a", "A" and "b", each with its terminating NUL
NameChoices == { <<97, 0>>, <<65, 0>>, <<98, 0>> }

\* "c", the name that a directory blob of the variant "count" ends with
ExtraName == <<99, 0>>

ArchiveVariants == { "ok", "magic", "nodir", "count", "twodirs", "cut", "samefoff" }

TableOrders == { "fwd", "rev", "dirfirst" }

\* the decompressed directory blob: declared count, then each name with its length
DirBlob(declared, nms) ==
  LE32(declared) \o Concat([j \in 1..Len(nms) |-> LE32(Len(nms[j])) \o nms[j]])

Reverse(s) == [j \in 1..Len(s) |-> s[Len(s) + 1 - j]]

Reorder(recs, order) ==
  IF order = "rev" THEN Reverse(recs)
  ELSE IF order = "dirfirst"
  THEN <<recs[Len(recs)]>> \o SubSeq(recs, 1, Len(recs) - 1)
  ELSE recs

\* an archive of the files fs named nms: header, the files' chunks, the
\* directory's chunk, then the table of entries in the given order
Archive(fs, nms, variant, order) ==
  LET n == Len(fs)
      blob == IF variant = "count"
              THEN DirBlob(n + 1, nms \o <<ExtraName>>)
              ELSE DirBlob(n, nms)
      dirBytes == Chunk(Len(blob), Deflate(blob))
      body == Concat([j \in 1..n |-> fs[j].bytes])
      dataOff(j) == 8 + Len(Concat([k \in 1..(j - 1) |-> fs[k].bytes]))
      dirOff == 8 + Len(body)
      dirRec == [crc |-> IF variant = "nodir" THEN 7 ELSE DirectoryCrc,
                 foff |-> dirOff, size |-> Len(blob)]
      \* variant "samefoff": every file entry points at the first file's
      \* chunks, the later ones with a larger declared size
      recs == [j \in 1..n |->
                 [crc |-> j,
                  foff |-> IF variant = "samefoff" THEN dataOff(1) ELSE dataOff(j),
                  size |-> IF variant = "samefoff" /\ j > 1 THEN 3
                           ELSE fs[j].size]]
              \o <<dirRec>>
              \o (IF variant = "twodirs" THEN <<dirRec>> ELSE <<>>)
      ordered == Reorder(recs, order)
      table == LE32(Len(ordered))
               \o Concat([j \in 1..Len(ordered) |->
                            LE32(ordered[j].crc) \o LE32(ordered[j].foff)
                            \o LE32(ordered[j].size)])
      full == LE32(dirOff + Len(dirBytes))
              \o (IF variant = "magic" THEN <<80, 70, 83, 33>> ELSE PfsMagic)
              \o body \o dirBytes \o table
  IN IF variant = "cut" THEN SubSeq(full, 1, Len(full) - 5) ELSE full

Archives ==
  { Archive(fs, nms, "ok", o) :
      <<fs, nms>> \in UNION { ([1..n -> FileChoices] \X [1..n -> NameChoices])
                               : n \in 0..MaxFiles },
      o \in TableOrders }
  \cup
  { Archive([j \in 1..Len(nms) |-> PlainFile], nms, v, o) :
      nms \in UNION { [1..n -> NameChoices] : n \in 0..MaxFiles },
      v \in ArchiveVariants, o \in TableOrders }
  \cup { PfsMagic }

\* no Wld is being constructed
WldIdle ==
  /\ b_data = <<>> /\ b_pos = 0 /\ old = FALSE /\ fragCount = 0
  /\ stringTable = <<>> /\ baked = FALSE
  /\ frags = <<>> /\ names = <<>> /\ byType = <<>>
  /\ idx = 0 /\ wpc = "idle" /\ werr = "" /\ wsite = "" /\ refs = <<>> /\ walk = <<>>
  /\ calls = <<>>

\* the state when readS3D is entered with archive data
S3dStart(data) ==
  /\ a_data = data /\ a_pos = 0 /\ a_i = 0 /\ a_count = 0 /\ a_offset = 0
  /\ directory = <<>> /\ filelist = <<>> /\ files = <<>> /\ entries = <<>>
  /\ binds = <<>> /\ spc = "start" /\ serr = "" /\ ssite = ""

InitS3D ==
  (\E data \in Archives : S3dStart(data)) /\ WldIdle /\ CodecIdle /\ AsmStart(<<>>)

NextS3D == S3dOpen \/ S3dEntry \/ S3dFinish

SpecS3D == InitS3D /\ [][NextS3D]_vars

(***************************************************************************)
(* Claims about readS3D                                                    *)
(***************************************************************************)
DirEntries == { k \in 1..Len(entries) : entries[k].crc = DirectoryCrc }

FileEntries == { k \in 1..Len(entries) : entries[k].crc # DirectoryCrc }

\* every file of the returned mapping has the data of an entry that does
\* not carry the directory checksum
DirectoryNotReturned ==
  \A fn \in DOMAIN files : \E k \in FileEntries : files[fn] = entries[k].data

\* no two filenames bound are equal after lowercasing
KeysDistinct ==
  \A j, k \in 1..Len(binds) : binds[j].fn = binds[k].fn => j = k

\* C7 as stated: an accepted archive returns count - 1 keys, none of them
\* the directory entry, whatever the table order and the stored names
C7_KeysAreCountMinusOne ==
  spc = "returned" =>
    DirectoryNotReturned /\ Cardinality(DOMAIN files) = a_count - 1

\* C7 amended: an accepted archive returns one key per distinct lowercased
\* filename, none of them the directory entry; the number of keys is at
\* most the count minus the number of directory entries, and is count - 1
\* when one entry is the directory and no two lowercased names are equal
C7_KeysAreDistinctNames ==
  spc = "returned" =>
    /\ DirectoryNotReturned
    /\ DOMAIN files = { binds[k].fn : k \in 1..Len(binds) }
    /\ Len(binds) = a_count - Cardinality(DirEntries)
    /\ Cardinality(DOMAIN files) <= a_count - Cardinality(DirEntries)
    /\ (Cardinality(DirEntries) = 1 /\ KeysDistinct
          => Cardinality(DOMAIN files) = a_count - 1)

\* an archive was accepted whose table has the directory entry before a
\* file entry and whose two stored names differ only in letter case
C7_Witness ==
  /\ spc = "returned"
  /\ Len(binds) = 2 /\ binds[1].fn = binds[2].fn
  /\ \E d \in DirEntries, k \in FileEntries : d < k

\* C8: every returned file is as long as its table entry declares
C8_LengthIsDeclaredSize ==
  spc = "returned" =>
    \A k \in 1..Len(binds), j \in FileEntries :
      (entries[j].foff = binds[k].foff /\ files[binds[k].fn] = entries[j].data)
        => Len(files[binds[k].fn]) = entries[j].size

\* the archive's magic tag, read from the input
MagicIsPfs == Len(a_data) >= 8 /\ SubSeq(a_data, 5, 8) = PfsMagic

\* the count at the start of the directory blob is the number of entries
\* that do not carry the directory checksum
DeclaredCountAgrees ==
  /\ directory # <<>>
  /\ Len(directory[1]) >= 4
  /\ BufUint(directory[1], 0) = Cardinality(FileEntries)

\* C9: with a wrong magic tag, without a directory entry or with a declared
\* file count that differs from the number of non-directory entries,
\* readS3D does not return, and no mapping exists unless it returned
C9_BadArchiveIsRejected ==
  /\ spc = "returned" =>
       MagicIsPfs /\ DirEntries # {} /\ DeclaredCountAgrees
  /\ spc # "returned" => files = <<>> /\ binds = <<>>

\* all entries were read, one of them the directory, and the declared count
\* is wrong: readS3D has raised
C9_Witness ==
  /\ spc = "raised" /\ serr = "AssertionError" /\ ssite = "count"
  /\ DirEntries # {} /\ directory # <<>> /\ ~DeclaredCountAgrees
  /\ files = <<>>

\* C10: no chunk of an accepted archive states a decompressed length other
\* than the length its bytes decompress to
C10_StatedLengthIsChecked ==
  spc = "returned" =>
    \A k \in 1..Len(entries) : \A c \in 1..Len(entries[k].chunks) :
      entries[k].chunks[c].inflen = entries[k].chunks[c].outlen

\* the k-th filename record of the directory blob dir (its bytes)
RECURSIVE NameRecordPos(_, _)
NameRecordPos(dir, k) ==
  IF k = 1 THEN 4
  ELSE LET q == NameRecordPos(dir, k - 1) IN q + 4 + BufUint(dir, q)

NameRecord(dir, k) ==
  BufRead(dir, NameRecordPos(dir, k) + 4, BufUint(dir, NameRecordPos(dir, k)))

\* whether file entry i comes before file entry j in an order that does not
\* look at the table: by file offset, then by checksum
ComesBefore(i, j) ==
  \/ entries[i].foff < entries[j].foff
  \/ entries[i].foff = entries[j].foff /\ entries[i].crc < entries[j].crc

\* the file entry with k - 1 file entries before it in that order
KthFileEntry(k) ==
  CHOOSE j \in FileEntries :
    Cardinality({ i \in FileEntries : ComesBefore(i, j) }) = k - 1

\* the mapping that binds the k-th filename record to the k-th file entry of
\* that order, for k up to n
RECURSIVE MappingByOffset(_)
MappingByOffset(n) ==
  IF n = 0 THEN <<>>
  ELSE (FileKey(NameRecord(directory[1], n)) :> entries[KthFileEntry(n)].data)
       @@ MappingByOffset(n - 1)

\* no two file entries have the same file offset
FileOffsetsDistinct ==
  \A i, j \in FileEntries : entries[i].foff = entries[j].foff => i = j

\* no two file entries have the same checksum
FileEntriesDistinctCrc ==
  \A i, j \in FileEntries : entries[i].crc = entries[j].crc => i = j

\* C11 as stated: the returned mapping binds the k-th filename record to
\* the file entry with the k-th smallest file offset, whatever the order of
\* the entries in the table
C11_MappingIgnoresTableOrder ==
  (spc = "returned" /\ FileEntriesDistinctCrc)
    => files = MappingByOffset(Cardinality(FileEntries))

\* C11 amended: when one entry is the directory and no two file entries have
\* the same file offset, the k-th filename record is bound to the content
\* of the file entry with exactly k - 1 file entries of smaller offset, and
\* the mapping is the one computed without looking at the table order
C11_BoundInOffsetOrder ==
  (spc = "returned" /\ Cardinality(DirEntries) = 1 /\ FileOffsetsDistinct)
    => /\ Len(binds) = Cardinality(FileEntries)
       /\ \A k \in 1..Len(binds) :
            /\ binds[k].fn = FileKey(NameRecord(directory[1], k))
            /\ \E j \in FileEntries :
                 /\ entries[j].foff = binds[k].foff
                 /\ entries[j].data = binds[k].data
                 /\ Cardinality({ i \in FileEntries :
                                    entries[i].foff < entries[j].foff }) = k - 1
       /\ files = MappingByOffset(Cardinality(FileEntries))

\* an archive was accepted whose table lists a file of larger offset before
\* one of smaller offset, under two different names
C11_Witness ==
  /\ spc = "returned" /\ Cardinality(DirEntries) = 1 /\ FileOffsetsDistinct
  /\ \E i, j \in FileEntries : i < j /\ entries[i].foff > entries[j].foff
  /\ Cardinality(DOMAIN files) >= 2

(***************************************************************************)
(* A client that applies Wld.decodeString repeatedly (SpecCodec).          *)
(* The bytes branch and the string branch of decodeString compute the same *)
(* codes (x ^ key and ord(x) ^ key); both return a string, so every        *)
(* application after the first takes the string branch.                    *)
(***************************************************************************)
MaxStrLen == 3
MaxDecodes == 2

\* codes of the input: a NUL, a letter, a key byte, the largest byte and a
\* character beyond the byte range (string form only)
CodeChoices == {0, 65, 149, 255, 300}

\* inputs: short sequences, alone and after eight codes, so that the key
\* is used beyond its length
CodecInputs ==
  { pad \o t : pad \in { <<>>, <<1, 2, 3, 4, 5, 6, 7, 8>> },
               t \in {<<>>} \cup SeqsUpTo(CodeChoices, MaxStrLen) }

CodecApply ==
  /\ c_n < MaxDecodes
  /\ c_out' = decodeString(c_out)
  /\ c_n' = c_n + 1
  /\ UNCHANGED <<c_in, wldVars, s3dVars, asmVars>>

InitCodec ==
  /\ \E t \in CodecInputs : c_in = t /\ c_out = t
  /\ c_n = 0
  /\ WldIdle /\ S3dIdle /\ AsmStart(<<>>)

NextCodec == CodecApply

SpecCodec == InitCodec /\ [][NextCodec]_vars

\* C12: decodeString applied to the result of decodeString gives back the
\* original codes at every position.
C12_DecodeTwiceIsIdentity ==
  /\ Len(c_out) = Len(c_in)
  /\ c_n % 2 = 0 => c_out = c_in

\* two applications were made on an input longer than the key, and the
\* single application had changed it
C12_Witness ==
  /\ c_n = 2 /\ Len(c_in) > Len(xorkey)
  /\ c_out = c_in /\ decodeString(c_in) # c_in

(***************************************************************************)
(* Streams of one texture-reference or object-placement fragment           *)
(* (SpecFrag).                                                             *)
(***************************************************************************)
MaxFlagLow == 31
MaxRotSteps == 4

\* the largest e with 2^e <= n, for n >= 1
RECURSIVE Log2(_)
Log2(n) == IF n < 2 THEN 0 ELSE 1 + Log2(n \div 2)

\* the four bytes of the 32-bit IEEE-754 value of the whole number n
FloatBytes(n) ==
  IF n = 0 THEN Zeros(4)
  ELSE LET a == IF n < 0 THEN -n ELSE n
           e == Log2(a)
           exp == e + 127
           mant == a * (2 ^ (23 - e)) - 8388608
       IN <<mant % 256, (mant \div 256) % 256,
            (exp % 2) * 128 + (mant \div 65536),
            (IF n < 0 THEN 128 ELSE 0) + (exp \div 2)>>

\* raw renderer flags, as low and high 16 bits
FlagLows == 0..MaxFlagLow \cup {65535}
FlagHighs == {0, 1, 32768}

TexrefBody(pairflags, lo, hi, ref) ==
  LE32(pairflags) \o LE16(lo) \o LE16(hi) \o Zeros(12)
  \o (IF Bit(pairflags, 1) THEN Zeros(8) ELSE <<>>) \o LE32(ref)

TexrefFrags ==
  { FragBytes(4 + Len(TexrefBody(pf, lo, hi, 1)), T_texref, NoNameOffset,
              TexrefBody(pf, lo, hi, 1)) :
      pf \in {0, 2}, lo \in FlagLows, hi \in FlagHighs }

\* stored rotation values: multiples of a quarter of 512
RotChoices == { 128 * k : k \in (-MaxRotSteps)..MaxRotSteps }

ObjlocBody(sref, pos, rot, scale) ==
  LE32(sref) \o Zeros(8)
  \o FloatBytes(pos[1]) \o FloatBytes(pos[2]) \o FloatBytes(pos[3])
  \o FloatBytes(rot[1]) \o FloatBytes(rot[2]) \o FloatBytes(rot[3])
  \o FloatBytes(scale[1]) \o FloatBytes(scale[2]) \o FloatBytes(scale[3])
  \o Zeros(8)

ObjlocFrags ==
  { FragBytes(60, T_objloc, -1, ObjlocBody(-3, <<1, -2, 3>>, <<r1, r2, r3>>, <<0, 0, s>>)) :
      r1 \in RotChoices, r2 \in RotChoices, r3 \in RotChoices, s \in {0, 2} }

FragStreams ==
  { WldStream(WldOldMagic, 1, <<f>>) : f \in TexrefFrags \cup ObjlocFrags }

InitFrag ==
  /\ \E data \in FragStreams : WldStart(data)
  /\ S3dIdle /\ CodecIdle /\ AsmStart(<<>>)

NextFrag == WldHeader \/ WldFragment \/ WldBake

SpecFrag == InitFrag /\ [][NextFrag]_vars

\* the raw flag halves of the texture-reference fragment of index i
RawLow(i) == BufUshort(b_data, walk[i + 1].start + 16)
RawHigh(i) == BufUshort(b_data, walk[i + 1].start + 18)

TexrefIndexes == { i \in DOMAIN frags : frags[i].type = T_texref }

\* C16: raw 0 gives transparent only, raw 2 masked only, raw 4 translucent
\* only, raw 6 masked and translucent, and low 16 bits 0x14 the empty set;
\* transparent is set only for raw 0 and never with another flag.
C16_FlagsAreNormalized ==
  \A i \in TexrefIndexes :
    LET lo == RawLow(i)
        hi == RawHigh(i)
        sane == frags[i].frag.d[1]
    IN /\ (lo = 0 /\ hi = 0) => sane = FLAG_TRANSPARENT
       /\ (lo = 2 /\ hi = 0) => sane = FLAG_MASKED
       /\ (lo = 4 /\ hi = 0) => sane = FLAG_TRANSLUCENT
       /\ (lo = 6 /\ hi = 0) => sane = FLAG_MASKED + FLAG_TRANSLUCENT
       /\ lo = 20 => sane = 0
       /\ Bit(sane, 2) => (lo = 0 /\ hi = 0 /\ sane = FLAG_TRANSPARENT)

\* a decoded texture reference whose raw flags are 0x10014
C16_Witness ==
  /\ wpc = "ready"
  /\ \E i \in TexrefIndexes :
       RawLow(i) = 20 /\ RawHigh(i) = 1 /\ frags[i].frag.d[1] = 0

ObjlocIndexes == { i \in DOMAIN frags : frags[i].type = T_objloc }

\* the three rotation values stored in the object-placement fragment i
StoredRotation(i) == BufFloats(b_data, walk[i + 1].start + 36, 3)

\* the decoded rotation of fragment i, in thousandths of pi
DecodedRotation(i) == SubSeq(frags[i].frag.d, 4, 6)

\* C17: stored rotation (512, 0, 0) decodes to (0, 0, pi): the axes are
\* reversed and 512 units are half a turn.
C17_HalfTurnPer512 ==
  \A i \in ObjlocIndexes :
    StoredRotation(i) = <<512, 0, 0>> => DecodedRotation(i) = <<0, 0, 1000>>

\* C17 (amended): stored rotation (512, 0, 0) decodes to (0, 0, 2 pi): the
\* axes are reversed and 512 units are a full turn.
C17_FullTurnPer512 ==
  \A i \in ObjlocIndexes :
    /\ StoredRotation(i) = <<512, 0, 0>> => DecodedRotation(i) = <<0, 0, 2000>>
    /\ \A k \in 1..3 : 512 * DecodedRotation(i)[k] = 2000 * StoredRotation(i)[4 - k]

C17_Witness ==
  /\ wpc = "ready"
  /\ \E i \in ObjlocIndexes :
       StoredRotation(i) = <<512, 0, 0>> /\ DecodedRotation(i) = <<0, 0, 2000>>

(***************************************************************************)
(* The Scene Assembler: Wld.convertZone, convertObjects, convertLights and *)
(* print_texture_warnings.                                                 *)
(*                                                                         *)
(* Values met by the walks besides payloads: a FragRef object (its index   *)
(* on the heap), a string, an int.                                         *)
(***************************************************************************)
\* F(x), with x computed once
With(F(_), x) == CHOOSE res \in { F(y) : y \in {x} } : TRUE

INone == [t |-> "none", r |-> 0, s |-> <<>>, n |-> 0]
IRef(r) == [INone EXCEPT !.t = "ref", !.r = r]
IStr(s) == [INone EXCEPT !.t = "str", !.s = s]
IInt(n) == [INone EXCEPT !.t = "int", !.n = n]

\* len(d) of a payload that is a dict: its keys, "_name" included
DictLen(v) ==
  IF v.k = "mesh" THEN 9
  ELSE IF v.k = "light_info" \/ v.k = "objloc" THEN 5
  ELSE 3

\* FragRef.__len__: len(self.resolve())
LenOf(r, heap) ==
  With(LAMBDA res :
         IF res.out # "ok" THEN [out |-> res.out, heap |-> res.heap, n |-> 0]
         ELSE IF res.val.k = "None"
         THEN [out |-> "TypeError", heap |-> res.heap, n |-> 0]
         ELSE [out |-> "ok", heap |-> res.heap,
               n |-> IF res.val.k = "texlist" THEN Len(res.val.rs)
                     ELSE IF res.val.k = "texname" THEN Len(res.val.l)
                     ELSE IF res.val.k = "texref" THEN 2
                     ELSE DictLen(res.val)],
       Resolve(r, heap, 1))

\* FragRef.__getitem__: self.resolve()[i], for an int i >= 0
GetItem(r, heap, i) ==
  With(LAMBDA res :
         LET v == res.val
             Raise(e) == [out |-> e, heap |-> res.heap, item |-> INone]
             Give(x) == [out |-> "ok", heap |-> res.heap, item |-> x]
         IN IF res.out # "ok" THEN Raise(res.out)
            ELSE IF v.k = "None" THEN Raise("TypeError")
            ELSE IF v.k = "texlist"
            THEN IF i < Len(v.rs) THEN Give(IRef(v.rs[i + 1])) ELSE Raise("IndexError")
            ELSE IF v.k = "texname"
            THEN IF i < Len(v.l) THEN Give(IStr(v.l[i + 1])) ELSE Raise("IndexError")
            ELSE IF v.k = "texref"
            THEN IF i = 0 THEN Give(IInt(v.d[1]))
                 ELSE IF i = 1 THEN Give(IRef(v.r))
                 ELSE Raise("IndexError")
            ELSE Raise("KeyError"),
       Resolve(r, heap, 1))

\* texflags, mtex = x: x is iterated with x[0], x[1], ... until IndexError,
\* and must give exactly two values
Unpack2(x, heap) ==
  LET Raise(e, h) == [out |-> e, heap |-> h, a |-> INone, b |-> INone]
  IN IF x.t = "int" THEN Raise("TypeError", heap)
     ELSE IF x.t = "str" THEN Raise("Unsupported", heap)
     ELSE
       With(LAMBDA i0 :
         IF i0.out = "IndexError" THEN Raise("ValueError", i0.heap)
         ELSE IF i0.out # "ok" THEN Raise(i0.out, i0.heap)
         ELSE
           With(LAMBDA i1 :
             IF i1.out = "IndexError" THEN Raise("ValueError", i1.heap)
             ELSE IF i1.out # "ok" THEN Raise(i1.out, i1.heap)
             ELSE
               With(LAMBDA i2 :
                 IF i2.out = "ok" THEN Raise("ValueError", i2.heap)
                 ELSE IF i2.out # "IndexError" THEN Raise(i2.out, i2.heap)
                 ELSE [out |-> "ok", heap |-> i2.heap, a |-> i0.item, b |-> i1.item],
                 GetItem(x.r, i1.heap, 2)),
             GetItem(x.r, i0.heap, 1)),
         GetItem(x.r, heap, 0))

\* texname[0].lower() for each reference of texnames, in order
RECURSIVE TexFileNames(_, _, _)
TexFileNames(rs, heap, acc) ==
  IF rs = <<>> THEN [out |-> "ok", heap |-> heap, names |-> acc]
  ELSE With(LAMBDA g :
              IF g.out # "ok" THEN [out |-> g.out, heap |-> g.heap, names |-> acc]
              ELSE IF g.item.t # "str"
              THEN [out |-> "AttributeError", heap |-> g.heap, names |-> acc]
              ELSE TexFileNames(Tail(rs), g.heap, Append(acc, Lower(g.item.s))),
            GetItem(Head(rs), heap, 0))

\* zonefile.Material(flags, textures, params)
Material(flags, textures, params) ==
  [flags |-> flags, textures |-> textures, params |-> params]

NoMaterial == Material(-1, <<>>, 0)

\* utility.interleave: list(chain.from_iterable(zip(*lists))); zip stops at
\* the end of the shortest list
RECURSIVE interleave(_)
interleave(lists) ==
  IF \E n \in 1..Len(lists) : lists[n] = <<>> THEN <<>>
  ELSE [n \in 1..Len(lists) |-> Head(lists[n])]
       \o interleave([n \in 1..Len(lists) |-> Tail(lists[n])])

\* utility.flatten on a list of tuples of numbers: one level is removed
flatten(x) == IF x = <<>> THEN <<>> ELSE Concat(x)

\* zonefile.VertexBuffer(data, count)
VertexBuffer(data, count) == [data |-> data, count |-> count]

\* lines 120-127 and 214-223: the vertex buffer of mesh payload p
VertexBufferOf(p) ==
  VertexBuffer(flatten(interleave(<<p.m.vertices, p.m.normals, p.m.texcoords>>)),
               Len(p.m.vertices))

\* zonefile.Mesh(material, vbuf, polys, collidable)
Mesh(material, vbuf, polys, collidable) ==
  [material |-> material, vbuf |-> vbuf, polys |-> polys, collidable |-> collidable]

\* Material(texflags, [self.s3d[texname[0].lower()] for texname in texnames],
\* params), after the loop over texnames that precedes it; cause tells a
\* failed lookup in self.s3d from a failure to get a name
BuildMaterial(texflags, dict, heap) ==
  With(LAMBDA tn :
         IF tn.out # "ok"
         THEN [out |-> tn.out, heap |-> tn.heap, material |-> NoMaterial,
               cause |-> "texname"]
         ELSE IF \E j \in 1..Len(tn.names) : tn.names[j] \notin DOMAIN s3d
         THEN [out |-> "KeyError", heap |-> tn.heap, material |-> NoMaterial,
               cause |-> "s3d"]
         ELSE [out |-> "ok", heap |-> tn.heap, cause |-> "",
               material |-> Material(texflags,
                                     [j \in 1..Len(tn.names) |-> s3d[tn.names[j]]],
                                     dict.d[1])],
       TexFileNames(dict.rs, heap, <<>>))

\* polys[off : off + count]
RunSlice(polys, off, count) ==
  SubSeq(polys, off + 1, IF off + count > Len(polys) THEN Len(polys) ELSE off + count)

\* a split that puts every polygon in the collidable list
PolysWhere_All(sl, c) ==
  [j \in 1..Len(sl) |-> sl[j][2]]

\* [x for c, x in slice if c] and [x for c, x in slice if not c]
PolysWhere(sl, c) ==
  LET sel == SelectSeq(sl, LAMBDA x : x[1] = c)
  IN [j \in 1..Len(sel) |-> sel[j][2]]

\* the meshes added for one run: the collidable one, then the other, each
\* only if it has a polygon
RunMeshes(material, vbuf, sl) ==
  (IF Len(PolysWhere(sl, TRUE)) > 0
   THEN <<Mesh(material, vbuf, PolysWhere(sl, TRUE), TRUE)>> ELSE <<>>)
  \o (IF Len(PolysWhere(sl, FALSE)) > 0
      THEN <<Mesh(material, vbuf, PolysWhere(sl, FALSE), FALSE)>> ELSE <<>>)

MaxWalks == 2
MaxPrints == 1

\* str(n) for n >= 0
RECURSIVE Digits(_)
Digits(n) == IF n < 10 THEN <<48 + n>> ELSE Digits(n \div 10) \o <<48 + (n % 10)>>

\* "convertZone" and "convertObjects"
ZoneSite == <<99, 111, 110, 118, 101, 114, 116, 90, 111, 110, 101>>
ObjectsSite == <<99, 111, 110, 118, 101, 114, 116, 79, 98, 106, 101, 99, 116, 115>>

\* f"{site}_idx{index}_avail{avail}"
WarningKey(site, index, avail) ==
  site \o <<95, 105, 100, 120>> \o Digits(index)
  \o <<95, 97, 118, 97, 105, 108>> \o Digits(avail)

\* a counter that is set to one at every report
AddWarning_Reset(tw, key) == (key :> 1) @@ tw

\* self.texture_warnings[key] = self.texture_warnings.get(key, 0) + 1
AddWarning(tw, key) ==
  IF key \in DOMAIN tw THEN [tw EXCEPT ![key] = @ + 1] ELSE (key :> 1) @@ tw

\* a fallback that takes the last texture of the list
FallbackIndex_Last(index, n) == n - 1

\* line 138: index % len(meshfrag["textures"])
FallbackIndex(index, n) == index % n

\* an iteration that leaves the polygon offset where it was
NextOff_Stay(off, count) == off

\* off += count, executed on every path that ends an iteration of the run
\* loop (lines 174, 179, 207 and 232, 248, 289-303, 325)
NextOff(off, count) == off + count

\* the record kept of one polytex run: where it is, the length found for the
\* texture list (-1 if len() raised), the slice of polygons, the index used
\* (ti), the material built, the meshes added, how the iteration ended:
\* "emitted" (a material was built), "skipped" (passed over without a
\* diagnostic), "dropped" (out of range, nothing emitted), "raised", and
\* the polygon offset it left (next)
RunRecord(site, e, k, off, avail) ==
  [site |-> site, frag |-> e.i, k |-> k, off |-> off, next |-> off,
   count |-> e.frag.m.polytex[k][1], index |-> e.frag.m.polytex[k][2],
   avail |-> avail, slice |-> RunSlice(e.frag.m.polys, off, e.frag.m.polytex[k][1]),
   ti |-> -1, material |-> NoMaterial, out |-> <<>>, status |-> "", cause |-> ""]

\* the state of a walk: the FragRef objects, the counters, the meshes added
\* to the current object, the runs gone through, the exception raised
WalkState(heap, tw, meshes, rns, err) ==
  [heap |-> heap, tw |-> tw, meshes |-> meshes, runs |-> rns, err |-> err]

\* lines 139-141 and 177-181 of convertZone: the texture-bitmap-info dict
\* behind mtex, "skip" when mtex.value is None
ZoneMtex(b, heap) ==
  IF b.t # "ref" THEN [out |-> "AttributeError", dict |-> PNone]
  ELSE LET v1 == heap[b.r].value
       IN IF v1.k = "None" THEN [out |-> "skip", dict |-> PNone]
          ELSE IF v1.k # "FragRef" THEN [out |-> "AttributeError", dict |-> PNone]
          ELSE LET v2 == heap[v1.r].value
               IN IF v2.k = "texbitinfo" THEN [out |-> "ok", dict |-> v2]
                  ELSE IF v2.k = "None" THEN [out |-> "TypeError", dict |-> PNone]
                  ELSE [out |-> "Unsupported", dict |-> PNone]

\* lines 130-207: one iteration of the run loop of convertZone, for run k
\* of mesh entry e at polygon offset off
ZoneRun(ws, e, k, off) ==
  LET index == e.frag.m.polytex[k][2]
      End(heap, tw, r, err) ==
        WalkState(heap, tw, ws.meshes \o r.out,
                  Append(ws.runs,
                         [r EXCEPT !.next = IF err = "" THEN NextOff(off, r.count)
                                            ELSE off]),
                  err)
  IN With(LAMBDA ln :
       LET rec == RunRecord(ZoneSite, e, k, off, ln.n)
           oor == index >= ln.n
           tw1 == IF oor THEN AddWarning(ws.tw, WarningKey(ZoneSite, index, ln.n))
                  ELSE ws.tw
           ti == IF oor THEN FallbackIndex(index, ln.n) ELSE index
           r1 == [rec EXCEPT !.ti = ti]
       IN IF ln.out # "ok"
          THEN End(ln.heap, ws.tw, [rec EXCEPT !.avail = -1, !.status = "raised"],
                   ln.out)
          ELSE IF oor /\ ln.n = 0
          THEN End(ln.heap, tw1, [rec EXCEPT !.status = "dropped"], "")
          ELSE
            With(LAMBDA it :
              IF it.out # "ok"
              THEN End(it.heap, tw1, [r1 EXCEPT !.status = "raised"], it.out)
              ELSE
                With(LAMBDA up :
                  IF up.out # "ok"
                  THEN End(up.heap, tw1, [r1 EXCEPT !.status = "raised"], up.out)
                  ELSE
                    With(LAMBDA mt :
                      IF mt.out = "skip"
                      THEN End(up.heap, tw1, [r1 EXCEPT !.status = "skipped"], "")
                      ELSE IF mt.out # "ok"
                      THEN End(up.heap, tw1, [r1 EXCEPT !.status = "raised"], mt.out)
                      ELSE
                        With(LAMBDA bm :
                          IF bm.out # "ok"
                          THEN End(bm.heap, tw1,
                                   [r1 EXCEPT !.status = "raised",
                                              !.cause = bm.cause],
                                   bm.out)
                          ELSE End(bm.heap, tw1,
                                   [r1 EXCEPT !.status = "emitted",
                                              !.material = bm.material,
                                              !.out = RunMeshes(bm.material,
                                                                VertexBufferOf(e.frag),
                                                                rec.slice)],
                                   ""),
                          BuildMaterial(up.a.n, mt.dict, up.heap)),
                      ZoneMtex(up.b, up.heap)),
                  Unpack2(it.item, it.heap)),
              GetItem(e.frag.r, ln.heap, ti)),
       LenOf(e.frag.r, ws.heap))

\* the run loop of one mesh fragment, from run k on
RECURSIVE ZoneRuns(_, _, _, _)
ZoneRuns(ws, e, k, off) ==
  IF ws.err # "" \/ k > Len(e.frag.m.polytex) THEN ws
  ELSE With(LAMBDA ws1 : ZoneRuns(ws1, e, k + 1, ws1.runs[Len(ws1.runs)].next),
            ZoneRun(ws, e, k, off))

\* line 119: the loop over the mesh fragments, from the j-th on
RECURSIVE ZoneMeshes(_, _)
ZoneMeshes(ws, j) ==
  IF ws.err # "" \/ j > Len(byType[T_mesh]) THEN ws
  ELSE With(LAMBDA ws1 : ZoneMeshes(ws1, j + 1),
            ZoneRuns(ws, byType[T_mesh][j], 1, 0))

\* what all walks do when they end
WalkEnds(name, err) ==
  /\ apc' = (IF err = "" THEN "returned" ELSE "raised")
  /\ aerr' = err
  /\ awalk' = name
  /\ nwalks' = nwalks + 1

WalkMayStart == wpc = "ready" /\ apc # "raised" /\ nwalks < MaxWalks

\* Wld.convertZone(zone)
convertZone ==
  /\ WalkMayStart
  /\ IF T_mesh \notin DOMAIN byType
     THEN /\ WalkEnds("convertZone", "KeyError")
          /\ UNCHANGED <<refs, texture_warnings, zone, runs>>
     ELSE \E ws \in {ZoneMeshes(WalkState(refs, texture_warnings, zone.zoneobj,
                                           runs, ""), 1)} :
             /\ refs' = ws.heap
             /\ texture_warnings' = ws.tw
             /\ zone' = [zone EXCEPT !.zoneobj = ws.meshes]
             /\ runs' = ws.runs
             /\ WalkEnds("convertZone", ws.err)
  /\ UNCHANGED <<b_data, b_pos, old, fragCount, stringTable, baked, frags, names,
                 byType, idx, wpc, werr, wsite, walk, calls, s3d, printed,
                 s3dVars, codecVars>>

\* str.replace(sub, ""): s without the occurrences of sub
RECURSIVE RemoveSub(_, _)
RemoveSub(s, sub) ==
  IF Len(s) < Len(sub) THEN s
  ELSE IF SubSeq(s, 1, Len(sub)) = sub
  THEN RemoveSub(SubSeq(s, Len(sub) + 1, Len(s)), sub)
  ELSE <<Head(s)>> \o RemoveSub(Tail(s), sub)

\* "_DMSPRITEDEF" and "_ACTORDEF"
MeshSuffix == <<95, 68, 77, 83, 80, 82, 73, 84, 69, 68, 69, 70>>
ActorSuffix == <<95, 65, 67, 84, 79, 82, 68, 69, 70>>

\* lines 252-304 of convertObjects: texnames and params for the value x
\* taken from the texture list; "skip" for the formats it passes over
DictTextures(texflags, v) ==
  IF v.k = "texbitinfo" THEN [out |-> "ok", texflags |-> texflags, dict |-> v]
  ELSE [out |-> "KeyError", texflags |-> texflags, dict |-> PNone]

ObjectsMtex(x, heap) ==
  LET Skip == [out |-> "skip", texflags |-> 0, dict |-> PNone]
  IN IF x.t # "ref" THEN Skip
     ELSE LET rm == heap[x.r].value
          IN IF IsDict(rm) THEN DictTextures(0, rm)
             ELSE IF rm.k # "texref" THEN Skip
             ELSE LET ir == heap[rm.r].value
                  IN IF IsDict(ir) THEN DictTextures(rm.d[1], ir)
                     ELSE IF ir.k # "FragRef" THEN Skip
                     ELSE LET dr == heap[ir.r].value
                          IN IF IsDict(dr) THEN DictTextures(rm.d[1], dr)
                             ELSE Skip

\* lines 226-325: one iteration of the run loop of convertObjects
ObjectsRun(ws, e, k, off) ==
  LET index == e.frag.m.polytex[k][2]
      End(heap, tw, r, err) ==
        WalkState(heap, tw, ws.meshes \o r.out,
                  Append(ws.runs,
                         [r EXCEPT !.next = IF err = "" THEN NextOff(off, r.count)
                                            ELSE off]),
                  err)
  IN With(LAMBDA ln :
       LET rec == RunRecord(ObjectsSite, e, k, off, ln.n)
           r1 == [rec EXCEPT !.ti = index]
       IN IF ln.out # "ok"
          THEN End(ln.heap, ws.tw, [rec EXCEPT !.avail = -1, !.status = "raised"],
                   ln.out)
          ELSE IF index >= ln.n
          THEN End(ln.heap, AddWarning(ws.tw, WarningKey(ObjectsSite, index, ln.n)),
                   [rec EXCEPT !.status = "dropped"], "")
          ELSE
            With(LAMBDA it :
              IF it.out \in {"KeyError", "IndexError"}
              THEN End(it.heap, ws.tw, [r1 EXCEPT !.status = "skipped"], "")
              ELSE IF it.out # "ok"
              THEN End(it.heap, ws.tw, [r1 EXCEPT !.status = "raised"], it.out)
              ELSE
                With(LAMBDA mt :
                  IF mt.out = "skip"
                  THEN End(it.heap, ws.tw, [r1 EXCEPT !.status = "skipped"], "")
                  ELSE IF mt.out # "ok"
                  THEN End(it.heap, ws.tw, [r1 EXCEPT !.status = "raised"], mt.out)
                  ELSE
                    With(LAMBDA bm :
                      IF bm.out # "ok"
                      THEN End(bm.heap, ws.tw,
                               [r1 EXCEPT !.status = "raised", !.cause = bm.cause],
                               bm.out)
                      ELSE End(bm.heap, ws.tw,
                               [r1 EXCEPT !.status = "emitted",
                                          !.material = bm.material,
                                          !.out = RunMeshes(bm.material,
                                                            VertexBufferOf(e.frag),
                                                            rec.slice)],
                               ""),
                      BuildMaterial(mt.texflags, mt.dict, it.heap)),
                  ObjectsMtex(it.item, it.heap)),
              GetItem(e.frag.r, ln.heap, index)),
       LenOf(e.frag.r, ws.heap))

RECURSIVE ObjectsRuns(_, _, _, _)
ObjectsRuns(ws, e, k, off) ==
  IF ws.err # "" \/ k > Len(e.frag.m.polytex) THEN ws
  ELSE With(LAMBDA ws1 : ObjectsRuns(ws1, e, k + 1, ws1.runs[Len(ws1.runs)].next),
            ObjectsRun(ws, e, k, off))

\* zone.addObject(name): a new object without meshes
ZoneObject(name, meshes) == [name |-> name, meshes |-> meshes]

\* lines 211-325: the loop over the mesh fragments, from the j-th on; os is
\* the state of the walk with the objects added so far
RECURSIVE ObjectsMeshes(_, _)
ObjectsMeshes(os, j) ==
  IF os.err # "" \/ j > Len(byType[T_mesh]) THEN os
  ELSE LET e == byType[T_mesh][j]
       IN IF e.frag.nm = NoneName
          THEN [os EXCEPT !.err = "AttributeError"]
          ELSE With(LAMBDA ws :
                      With(LAMBDA os1 : ObjectsMeshes(os1, j + 1),
                           [heap |-> ws.heap, tw |-> ws.tw, runs |-> ws.runs,
                            err |-> ws.err,
                            objects |-> Append(os.objects,
                                               ZoneObject(RemoveSub(e.frag.nm, MeshSuffix),
                                                          ws.meshes))]),
                    ObjectsRuns(WalkState(os.heap, os.tw, <<>>, os.runs, ""), e, 1, 0))

\* zone.addPlaceable(objname, position, rotation, scale) for the j-th
\* object-placement fragment
Placeable(e) ==
  [name |-> RemoveSub(getString(stringTable, -(e.frag.d[10])), ActorSuffix),
   position |-> SubSeq(e.frag.d, 1, 3), rotation |-> SubSeq(e.frag.d, 4, 6),
   scale |-> SubSeq(e.frag.d, 7, 9)]

\* Wld.convertObjects(zone)
convertObjects ==
  /\ WalkMayStart
  /\ \E os0 \in {[heap |-> refs, tw |-> texture_warnings, runs |-> runs,
                   err |-> "", objects |-> zone.objects]} :
     \E os \in {IF T_mesh \in DOMAIN byType THEN ObjectsMeshes(os0, 1) ELSE os0} :
     LET pl == IF os.err = "" /\ T_objloc \in DOMAIN byType
               THEN [j \in 1..Len(byType[T_objloc]) |-> Placeable(byType[T_objloc][j])]
               ELSE <<>>
     IN /\ refs' = os.heap
        /\ texture_warnings' = os.tw
        /\ runs' = os.runs
        /\ zone' = [zone EXCEPT !.objects = os.objects, !.placeables = @ \o pl]
        /\ WalkEnds("convertObjects", os.err)
  /\ UNCHANGED <<b_data, b_pos, old, fragCount, stringTable, baked, frags, names,
                 byType, idx, wpc, werr, wsite, walk, calls, s3d, printed,
                 s3dVars, codecVars>>

\* light["light"] = <the resolved value>: the payload no longer holds a
\* FragRef; r = -1 marks it (the fragment is the one whose reference was r)
LightAssigned(p) == [p EXCEPT !.r = -1]

\* a light that takes its flags from the light source
Light_SourceFlags(info, source) ==
  [position |-> SubSeq(info.d, 2, 4), radius |-> info.d[5],
   attenuation |-> source.d[1], color |-> SubSeq(source.d, 2, 4),
   flags |-> source.d[1]]

\* zone.addLight(position, radius, attenuation, color, flags)
Light(info, source) ==
  [position |-> SubSeq(info.d, 2, 4), radius |-> info.d[5],
   attenuation |-> source.d[1], color |-> SubSeq(source.d, 2, 4),
   flags |-> info.d[1]]

\* lines 334-342: the loop over the light-placement fragments, from the
\* j-th on; done holds the references of the payloads assigned to
RECURSIVE LightsFrom(_, _)
LightsFrom(ls, j) ==
  IF ls.err # "" \/ j > Len(byType[T_light_info]) THEN ls
  ELSE LET p == byType[T_light_info][j].frag
       IN IF p.r = -1 THEN [ls EXCEPT !.err = "AttributeError"]
          ELSE With(LAMBDA res :
                      LET ls1 == [ls EXCEPT !.heap = res.heap]
                          ls2 == [ls1 EXCEPT !.done = @ \cup {p.r}]
                      IN IF res.out # "ok" THEN [ls1 EXCEPT !.err = res.out]
                         ELSE IF res.val.k = "light_source"
                         THEN With(LAMBDA ls3 : LightsFrom(ls3, j + 1),
                                   [ls2 EXCEPT !.lights = Append(@, Light(p, res.val))])
                         ELSE IF IsDict(res.val) THEN [ls2 EXCEPT !.err = "KeyError"]
                         ELSE [ls2 EXCEPT !.err = "TypeError"],
                    Resolve(p.r, ls.heap, 1))

\* the payload x after the assignments to the payloads of references done
AfterLights(x, done) ==
  IF x.k = "light_info" /\ x.r \in done THEN LightAssigned(x) ELSE x

\* Wld.convertLights(zone)
convertLights ==
  /\ WalkMayStart
  /\ IF T_light_info \notin DOMAIN byType
     THEN /\ WalkEnds("convertLights", "KeyError")
          /\ UNCHANGED <<refs, frags, names, byType, zone>>
     ELSE \E ls \in {LightsFrom([heap |-> refs, lights |-> zone.lights,
                                   done |-> {}, err |-> ""], 1)} :
          LET Entry2(e) == [e EXCEPT !.frag = AfterLights(@, ls.done)]
          IN /\ refs' = [r \in DOMAIN ls.heap |->
                           [ls.heap[r] EXCEPT !.value = AfterLights(@, ls.done)]]
             /\ frags' = [i \in DOMAIN frags |-> Entry2(frags[i])]
             /\ names' = [n \in DOMAIN names |-> Entry2(names[n])]
             /\ byType' = [t \in DOMAIN byType |->
                             [j \in 1..Len(byType[t]) |-> Entry2(byType[t][j])]]
             /\ zone' = [zone EXCEPT !.lights = ls.lights]
             /\ WalkEnds("convertLights", ls.err)
  /\ UNCHANGED <<b_data, b_pos, old, fragCount, stringTable, baked, idx, wpc, werr,
                 wsite, walk, calls, s3d, texture_warnings, runs, printed,
                 s3dVars, codecVars>>

\* key.split("_")[0]
RECURSIVE BeforeUnderscore(_)
BeforeUnderscore(key) ==
  IF key = <<>> \/ Head(key) = 95 THEN <<>>
  ELSE <<Head(key)>> \o BeforeUnderscore(Tail(key))

\* the sum of f over the keys in S
RECURSIVE SumOver(_, _)
SumOver(f, S) ==
  IF S = {} THEN 0
  ELSE LET x == CHOOSE y \in S : TRUE IN f[x] + SumOver(f, S \ {x})

\* lines 446-451: the totals per call site
by_function(tw) ==
  [func \in {BeforeUnderscore(key) : key \in DOMAIN tw} |->
     SumOver(tw, {key \in DOMAIN tw : BeforeUnderscore(key) = func})]

\* Wld.print_texture_warnings(): what it prints (nothing when there is no
\* counter)
print_texture_warnings ==
  /\ wpc = "ready" /\ apc # "raised" /\ Len(printed) < MaxPrints
  /\ printed' = Append(printed,
                       IF DOMAIN texture_warnings = {}
                       THEN [shown |-> FALSE, total |-> 0, by |-> <<>>]
                       ELSE [shown |-> TRUE,
                             total |-> SumOver(texture_warnings, DOMAIN texture_warnings),
                             by |-> by_function(texture_warnings)])
  /\ apc' = "returned" /\ aerr' = "" /\ awalk' = "print_texture_warnings"
  /\ UNCHANGED <<wldVars, s3d, texture_warnings, zone, nwalks, runs, s3dVars,
                 codecVars>>

(***************************************************************************)
(* Inputs of the assembler specification (SpecAsm): a stream with a        *)
(* texture name list, a texture-bitmap-info, a texture reference chain, a  *)
(* texture list and a mesh, and the archive file mapping.                  *)
(***************************************************************************)
MaxRuns == 2

\* one texture name list holding the string "A" (stored with its NUL)
TexnameFrag ==
  FragBytes(12, T_texname, NoNameOffset,
            LE32(0) \o LE16(2) \o decodeString(<<65, 0>>))

TexbitinfoFrag == FragBytes(16, T_texbitinfo, NoNameOffset, LE32(0) \o LE32(1) \o LE32(1))

TexunkFrag(ref) == FragBytes(8, T_texunk, NoNameOffset, LE32(ref))

TexrefFrag(flags, ref) ==
  FragBytes(28, T_texref, NoNameOffset, TexrefBody(0, flags, 0, ref))

TexlistFrag(ids) ==
  FragBytes(12 + 4 * Len(ids), T_texlist, NoNameOffset,
            LE32(0) \o LE32(Len(ids)) \o Concat([j \in 1..Len(ids) |-> LE32(ids[j])]))

\* a mesh of vc vertices and nc normals, without texcoords and colours;
\* polygon j has the vertex indexes (j, j+1, j+2) and the flag word
\* flagwords[j]; runs are the (count, index) pairs
AsmMeshBody(tlistref, vc, nc, flagwords, rns) ==
  LE32(0) \o LE32(tlistref) \o LE32(0) \o Zeros(60)
  \o LE16(vc) \o LE16(0) \o LE16(nc) \o LE16(0)
  \o LE16(Len(flagwords)) \o LE16(0) \o LE16(Len(rns)) \o LE16(0)
  \o LE16(0) \o LE16(0)
  \o Zeros(6 * vc) \o Zeros(3 * nc)
  \o Concat([j \in 1..Len(flagwords) |->
               LE16(flagwords[j]) \o LE16(j) \o LE16(j + 1) \o LE16(j + 2)])
  \o Concat([j \in 1..Len(rns) |-> LE16(rns[j][1]) \o LE16(rns[j][2])])

MeshFragOf(nameoff, tlistref, vc, nc, flagwords, rns) ==
  FragBytes(4 + Len(AsmMeshBody(tlistref, vc, nc, flagwords, rns)), T_mesh, nameoff,
            AsmMeshBody(tlistref, vc, nc, flagwords, rns))

\* a mesh of one vertex and one normal
MeshFrag(nameoff, tlistref, flagwords, rns) ==
  MeshFragOf(nameoff, tlistref, 1, 1, flagwords, rns)

LightSourceFrag == FragBytes(16, T_light_source, NoNameOffset, LE32(0) \o LE32(0) \o LE32(7))

LightInfoFrag(ref) == FragBytes(28, T_light_info, NoNameOffset, LE32(ref) \o Zeros(20))

\* a light source with its own attenuation (9) and color (1, 2, 3)
LightSourceOwnFrag ==
  FragBytes(32, T_light_source, NoNameOffset,
            LE32(24) \o LE32(0) \o LE32(9) \o LE32(0) \o LE32(1) \o LE32(2) \o LE32(3))

LightSourcerefFrag(ref) == FragBytes(8, T_light_sourceref, NoNameOffset, LE32(ref))

\* a light placement with flags, position and radius
LightPlaceFrag(ref, flags, pos, radius) ==
  FragBytes(28, T_light_info, NoNameOffset,
            LE32(ref) \o LE32(flags) \o LE32(pos[1]) \o LE32(pos[2]) \o LE32(pos[3])
            \o LE32(radius))

ObjlocFrag ==
  FragBytes(60, T_objloc, NoNameOffset,
            ObjlocBody(-3, <<1, 2, 3>>, <<0, 0, 256>>, <<0, 0, 2>>))

\* (count, index) pairs of the polytex table
RunChoices == { <<1, 0>>, <<2, 1>>, <<2, 2>>, <<1, 3>> }

RunTables == {<<>>} \cup SeqsUpTo(RunChoices, MaxRuns)

\* flag words of the three polygons: 0x10 is "not collidable"
FlagWordChoices == { <<0, 0, 0>>, <<16, 0, 16>> }

\* ids of the texture list: two, one or no texture reference
TexlistChoices == { <<4, 5>>, <<4>>, <<>> }

\* the chain in decode order: every reference points back
ChainFrags(ids) ==
  <<TexnameFrag, TexbitinfoFrag, TexunkFrag(2), TexrefFrag(2, 3), TexrefFrag(4, 3),
    TexlistFrag(ids)>>

\* the streams: kind, texture-list ids, polygon flag words, run table
AsmFrags(kind, ids, fw, rns) ==
  IF kind = "mesh" THEN Append(ChainFrags(ids), MeshFrag(-1, 6, fw, rns))
  ELSE IF kind = "two" THEN ChainFrags(ids) \o <<MeshFrag(-1, 6, fw, rns),
                                                 MeshFrag(-3, 6, fw, rns)>>
  ELSE IF kind = "noname" THEN Append(ChainFrags(ids), MeshFrag(NoNameOffset, 6, fw, rns))
  ELSE IF kind = "nolist" THEN Append(ChainFrags(ids), MeshFrag(-1, 9, fw, rns))
  \* the texture references point forward to the reference fragment
  ELSE IF kind = "forward"
  THEN <<TexnameFrag, TexbitinfoFrag, TexrefFrag(2, 7), TexrefFrag(4, 7),
         TexlistFrag(<<3, 4>>), MeshFrag(-1, 5, fw, rns), TexunkFrag(2)>>
  ELSE IF kind = "placed"
  THEN ChainFrags(ids) \o <<MeshFrag(-1, 6, fw, rns), ObjlocFrag,
                            LightSourceFrag, LightInfoFrag(9)>>
  \* the texture list is decoded before the texture references it lists
  ELSE IF kind = "late"
  THEN <<TexnameFrag, TexbitinfoFrag, TexunkFrag(2), TexlistFrag(<<5, 6>>),
         TexrefFrag(2, 3), TexrefFrag(4, 3), MeshFrag(-1, 4, fw, rns)>>
  \* a mesh that declares two vertices and one normal
  ELSE IF kind = "fewnormals"
  THEN Append(ChainFrags(ids), MeshFragOf(-1, 6, 2, 1, fw, rns))
  ELSE IF kind = "lights" THEN <<LightSourceFrag, LightInfoFrag(1)>>
  \* a light source with the empty name, referred to by that name
  ELSE IF kind = "emptyname"
  THEN <<FragBytes(16, T_light_source, 0, LE32(0) \o LE32(0) \o LE32(7)),
         LightInfoFrag(0)>>
  \* two placements, the first through a light-source reference fragment
  ELSE IF kind = "lit"
  THEN <<LightSourceFrag, LightSourceOwnFrag, LightSourcerefFrag(2),
         LightPlaceFrag(3, 1, <<4, 5, 6>>, 8), LightPlaceFrag(1, 2, <<3, 2, 1>>, 5)>>
  \* the second of three placements refers to a fragment that is not there
  ELSE IF kind = "litbad"
  THEN <<LightSourceFrag, LightPlaceFrag(1, 1, <<4, 5, 6>>, 8),
         LightPlaceFrag(9, 2, <<3, 2, 1>>, 5), LightPlaceFrag(1, 3, <<1, 1, 1>>, 2)>>
  ELSE IF kind = "objloc" THEN <<ObjlocFrag>>
  ELSE ChainFrags(ids)

AsmStream(kind, ids, fw, rns) ==
  WldStream(WldOldMagic, Len(AsmFrags(kind, ids, fw, rns)), AsmFrags(kind, ids, fw, rns))

\* the string table "\0X_ACTORDEFY_ACTORDEF\0M_DMSPRITEDEFN_DMSPRITEDEF\0":
\* the name at offset 1 holds "_ACTORDEF" in the middle and at the end,
\* the name at offset 22 holds "_DMSPRITEDEF" likewise
StrTabSuffixes ==
  <<0>> \o <<88>> \o ActorSuffix \o <<89>> \o ActorSuffix
  \o <<0>> \o <<77>> \o MeshSuffix \o <<78>> \o MeshSuffix \o <<0>>

\* a mesh and a placement whose names hold the suffixes twice
SuffixStream(rns) ==
  WldStreamTab(StrTabSuffixes, WldOldMagic, 8,
               ChainFrags(<<4, 5>>)
               \o <<MeshFrag(-22, 6, <<0, 0, 0>>, rns),
                    FragBytes(60, T_objloc, NoNameOffset,
                              ObjlocBody(-1, <<1, 2, 3>>, <<0, 0, 256>>, <<0, 0, 2>>))>>)

\* the archive file mapping: with the texture file "a", and without it
ArchiveFull == (<<97>> :> <<7, 7>>)
ArchiveEmpty == <<>>

AsmInputs ==
  { <<AsmStream("mesh", ids, fw, rns), ArchiveFull>> :
      ids \in TexlistChoices, fw \in FlagWordChoices, rns \in RunTables }
  \cup
  { <<AsmStream(kind, <<4, 5>>, <<16, 0, 16>>, rns), m>> :
      kind \in {"mesh", "two", "noname", "nolist", "forward", "late", "fewnormals",
                "placed", "lights", "lit", "litbad", "emptyname", "objloc", "chain"},
      rns \in { <<<<1, 0>>, <<2, 1>>>>, <<<<2, 2>>, <<1, 2>>>> },
      m \in {ArchiveFull, ArchiveEmpty} }
  \cup
  { <<SuffixStream(rns), ArchiveFull>> : rns \in { <<>>, <<<<1, 0>>, <<2, 1>>>> } }

InitAsm ==
  /\ \E in \in AsmInputs : WldStart(in[1]) /\ AsmStart(in[2])
  /\ S3dIdle /\ CodecIdle

NextAsm ==
  \/ WldHeader \/ WldFragment \/ WldBake
  \/ convertZone \/ convertObjects \/ convertLights \/ print_texture_warnings

SpecAsm == InitAsm /\ [][NextAsm]_vars

(***************************************************************************)
(* Properties of the assembler walks.                                      *)
(***************************************************************************)
\* the payload at the end of the chain of reference object r
TargetOf(r) == ChainEnd(r, refs, Len(refs))

\* the material described by entry j (from 0) of the texture list of mesh
\* entry e: the flags of the texture reference, the files of the names of
\* its texture-bitmap-info, and its params
EntryMaterial(e, j) ==
  LET tr == TargetOf(TargetOf(e.frag.r).rs[j + 1])
      bi == TargetOf(tr.r)
  IN Material(tr.d[1],
              [n \in 1..Len(bi.rs) |-> s3d[Lower(TargetOf(bi.rs[n]).l[1])]],
              bi.d[1])

RunIndexes == 1..Len(runs)

\* the run found its index out of range
OutOfRange(r) == r.avail >= 0 /\ r.index >= r.avail

\* the runs added by the step that have key k
NewRunsOfKey(site, k) ==
  { j \in (Len(runs) + 1)..Len(runs') :
      /\ OutOfRange(runs'[j])
      /\ WarningKey(site, runs'[j].index, runs'[j].avail) = k }

CountOf(tw, k) == IF k \in DOMAIN tw THEN tw[k] ELSE 0

C13_FallbackMaterial ==
  \A j \in RunIndexes :
    LET r == runs[j]
    IN (r.site = ZoneSite /\ r.index >= r.avail /\ r.avail > 0 /\ r.status = "emitted")
       => /\ r.material = EntryMaterial(frags[r.frag], r.index % r.avail)
          /\ \A n \in 1..Len(r.out) : r.out[n].material = r.material

C13_CounterStep ==
  (awalk' = "convertZone" /\ nwalks' = nwalks + 1)
  => \A k \in DOMAIN texture_warnings' :
       CountOf(texture_warnings', k) - CountOf(texture_warnings, k)
         = Cardinality(NewRunsOfKey(ZoneSite, k))

\* C13: in convertZone a run whose index is out of range against a
\* non-empty texture list gets the material of entry index mod count, and
\* the counter of its (site, index, available) key grows by one per run.
C13_FallbackUsesModulo == []C13_FallbackMaterial /\ [][C13_CounterStep]_vars

\* a fallback run of two polygons was emitted with the material of entry
\* 2 mod 2, and its counter is 1
C13_Witness ==
  \E j \in RunIndexes :
    /\ runs[j].site = ZoneSite /\ runs[j].status = "emitted"
    /\ runs[j].index = 2 /\ runs[j].avail = 2 /\ runs[j].count = 2
    /\ Len(runs[j].out) = 2
    /\ runs[j].material = EntryMaterial(frags[runs[j].frag], 0)
    /\ texture_warnings[WarningKey(ZoneSite, 2, 2)] = 1

\* C14: in convertObjects a run whose index is out of range against a
\* non-empty texture list is not dropped: it is emitted with the material
\* of entry index mod count.
C14_ObjectsFallback ==
  \A j \in RunIndexes :
    LET r == runs[j]
    IN (r.site = ObjectsSite /\ r.index >= r.avail /\ r.avail > 0)
       => /\ r.status # "dropped"
          /\ r.status = "emitted" =>
               r.material = EntryMaterial(frags[r.frag], r.index % r.avail)

\* the polygons of the meshes of run r that have collidable flag c
MeshPolys(r, c) ==
  LET sel == SelectSeq(r.out, LAMBDA m : m.collidable = c)
  IN IF sel = <<>> THEN <<>> ELSE sel[1].polys

\* the meshes of run r hold each polygon of its slice once, in order, and
\* no mesh is empty
RunIsPartitioned(r) ==
  /\ Len(r.out) <= 2
  /\ \A n \in 1..Len(r.out) : Len(r.out[n].polys) > 0
  /\ \A n, q \in 1..Len(r.out) : n # q => r.out[n].collidable # r.out[q].collidable
  /\ Len(MeshPolys(r, TRUE)) + Len(MeshPolys(r, FALSE)) = Len(r.slice)
  /\ \A n \in 1..Len(r.slice) :
       LET c == r.slice[n][1]
           rank == Cardinality({ q \in 1..n : r.slice[q][1] = c })
       IN /\ rank <= Len(MeshPolys(r, c))
          /\ MeshPolys(r, c)[rank] = r.slice[n][2]

\* C15: for every run of every mesh fragment a walk went through, the
\* collidable and the non-collidable mesh together hold exactly the
\* polygons of the run's slice.
C15_EveryRunIsPartitioned ==
  \A j \in RunIndexes : RunIsPartitioned(runs[j])

\* C15 (amended): the same for every run for which a material is built.
C15_EmittedRunIsPartitioned ==
  \A j \in RunIndexes : runs[j].status = "emitted" => RunIsPartitioned(runs[j])

\* a run of two polygons, one of each kind, was emitted as two meshes
C15_Witness ==
  \E j \in RunIndexes :
    /\ runs[j].status = "emitted" /\ Len(runs[j].slice) = 2 /\ Len(runs[j].out) = 2
    /\ RunIsPartitioned(runs[j])

\* C18: a texture filename that is not in the archive file mapping does not
\* abort convertZone or convertObjects.
C18_MissingFileIsNotFatal ==
  \A j \in RunIndexes : runs[j].cause = "s3d" => runs[j].status # "raised"

\* the walk named w has no fragment of the types it walks
NothingToWalk(w) ==
  \/ w = "convertZone" /\ T_mesh \notin DOMAIN byType
  \/ w = "convertObjects" /\ T_mesh \notin DOMAIN byType /\ T_objloc \notin DOMAIN byType
  \/ w = "convertLights" /\ T_light_info \notin DOMAIN byType

\* C19: a walk over a stream without a fragment of its type returns and
\* leaves the zone as it was.
C19_NothingToWalkReturns ==
  [][(nwalks' = nwalks + 1 /\ NothingToWalk(awalk'))
       => (apc' = "returned" /\ zone' = zone)]_vars

\* the number of runs gone through that were out of range, at a call site
OutOfRangeRuns(site) ==
  Cardinality({ j \in RunIndexes : runs[j].site = site /\ OutOfRange(runs[j]) })

C20_SumIsOutOfRangeRuns ==
  /\ SumOver(texture_warnings, DOMAIN texture_warnings)
       = OutOfRangeRuns(ZoneSite) + OutOfRangeRuns(ObjectsSite)
  /\ \A n \in 1..Len(printed) :
       /\ SumOver(printed[n].by, DOMAIN printed[n].by) = printed[n].total
       /\ printed[n].shown <=> printed[n].total > 0
  /\ awalk = "print_texture_warnings" =>
       LET p == printed[Len(printed)]
       IN /\ p.total = OutOfRangeRuns(ZoneSite) + OutOfRangeRuns(ObjectsSite)
          /\ \A site \in {ZoneSite, ObjectsSite} :
               (IF site \in DOMAIN p.by THEN p.by[site] ELSE 0) = OutOfRangeRuns(site)
          /\ DOMAIN p.by \subseteq {ZoneSite, ObjectsSite}

C20_CountersGrow ==
  \A k \in DOMAIN texture_warnings :
    k \in DOMAIN texture_warnings' /\ texture_warnings'[k] >= texture_warnings[k]

\* C20: the counters add up to the number of out-of-range runs gone
\* through, no counter ever decreases, and the totals per call site
\* printed by print_texture_warnings add up to the same number.
C20_WarningsCountRuns == []C20_SumIsOutOfRangeRuns /\ [][C20_CountersGrow]_vars

\* both call sites have reported out-of-range runs and
\* print_texture_warnings has printed the totals of both
C20_Witness ==
  /\ awalk = "print_texture_warnings"
  /\ printed[Len(printed)].shown
  /\ DOMAIN printed[Len(printed)].by = {ZoneSite, ObjectsSite}
  /\ printed[Len(printed)].total >= 2

(***************************************************************************)
(* Independence of the walks.                                              *)
(***************************************************************************)
\* the counters of the call site site
CountersOf(tw, site) ==
  [k \in { key \in DOMAIN tw : BeforeUnderscore(key) = site } |-> tw[k]]

\* the site whose counters the walk named w writes
SiteOf(w) ==
  IF w = "convertZone" THEN ZoneSite
  ELSE IF w = "convertObjects" THEN ObjectsSite
  ELSE <<>>

\* a walk writes no fragment table, no payload, no cached value of a
\* reference and no counter of another walk
C21_NoSharedWrite ==
  (nwalks' = nwalks + 1)
  => /\ frags' = frags /\ names' = names /\ byType' = byType
     /\ refs' = refs
     /\ \A site \in {ZoneSite, ObjectsSite} \ {SiteOf(awalk')} :
          CountersOf(texture_warnings', site) = CountersOf(texture_warnings, site)

\* the objects convertObjects builds when it is the first walk called
\* on a constructed Wld
ObjectsCalledFirst ==
  ObjectsMeshes([heap |-> refs, tw |-> <<>>, runs |-> <<>>, err |-> "",
                 objects |-> <<>>], 1)

\* the objects it builds when convertZone has returned before it
ObjectsCalledAfterZone ==
  With(LAMBDA zw :
         IF zw.err # "" THEN ObjectsCalledFirst
         ELSE ObjectsMeshes([heap |-> zw.heap, tw |-> <<>>, runs |-> <<>>,
                             err |-> "", objects |-> <<>>], 1),
       ZoneMeshes(WalkState(refs, <<>>, <<>>, <<>>, ""), 1))

C21_SameObjectsInEitherOrder ==
  (wpc = "ready" /\ nwalks = 0 /\ T_mesh \in DOMAIN byType)
  => ObjectsCalledAfterZone.objects = ObjectsCalledFirst.objects

\* C21: convertZone, convertObjects and convertLights write no state in
\* common (fragment tables, payloads, cached values of references, counters
\* of another walk), and convertObjects builds the same objects whether it
\* is called before or after convertZone.
C21_WalksAreIndependent ==
  []C21_SameObjectsInEitherOrder /\ [][C21_NoSharedWrite]_vars

\* a walk leaves the fragment tables and every payload as they were
C22_TablesUnchanged ==
  (nwalks' = nwalks + 1)
  => frags' = frags /\ names' = names /\ byType' = byType

\* convertLights called again right after the first call returned
C22_SecondLightsSucceeds ==
  (nwalks = 1 /\ awalk = "convertLights" /\ apc = "returned"
     /\ nwalks' = 2 /\ awalk' = "convertLights")
  => apc' = "returned" /\ zone'.lights = zone.lights \o zone.lights

\* C22: after construction the walks leave frags, names, byType and every
\* fragment payload unchanged, and a second convertLights on the same Wld
\* returns and appends the same lights again.
C22_FragmentsAreImmutable ==
  [][C22_TablesUnchanged /\ C22_SecondLightsSucceeds]_vars

(***************************************************************************)
(* The name table.                                                         *)
(***************************************************************************)
\* the names under which the fragments decoded so far are to be found: the
\* non-empty names, and the name of every fragment of type 0x05
ExpectedNameKeys ==
  { frags[i].name :
      i \in { j \in DOMAIN frags :
                frags[j].name \notin {<<>>, NoneName} \/ frags[j].type = T_texunk } }

\* C23: during the table pass and after the rebake pass the keys of the
\* name table are the names of the fragments whose name is non-empty or
\* whose type is 0x05; an unnamed fragment and a fragment of another type
\* with the empty name are never keys.
C23_NamedOrTexunkOnly ==
  wpc \in {"table", "ready"}
  => /\ DOMAIN names = ExpectedNameKeys
     /\ \A n \in DOMAIN names : names[n].name = n

(***************************************************************************)
(* The tables after the rebake pass, and references resolved before it     *)
(* (SpecPre).                                                              *)
(***************************************************************************)
MaxPreFrags == 3

\* two references to the fragment of index 2, one to the fragment of
\* index 1, a light source named "A" and a fragment without handler
PreFragChoices ==
  { FragBytes(8, T_light_sourceref, NoNameOffset, LE32(3)),
    FragBytes(8, T_texunk, NoNameOffset, LE32(3)),
    FragBytes(8, T_texunk, NoNameOffset, LE32(2)),
    FragBytes(16, T_light_source, -1, LE32(0) \o LE32(0) \o LE32(7)),
    FragBytes(8, T_unregistered, NoNameOffset, Zeros(4)) }

PreStreams ==
  { WldStream(WldOldMagic, MaxPreFrags, fs) : fs \in [1..MaxPreFrags -> PreFragChoices] }

InitPre ==
  (\E data \in PreStreams : WldStart(data)) /\ S3dIdle /\ CodecIdle /\ AsmStart(<<>>)

NextPre == WldHeader \/ WldFragment \/ WldBake \/ ResolveEarly \/ ResolveCall

SpecPre == InitPre /\ [][NextPre]_vars

\* the indexes of the fragments of type t, among those decoded
IndexesOfType(t) == { i \in DOMAIN frags : frags[i].type = t }

\* after the rebake: one entry per index 0..fragCount-1, None for a type
\* without handler, and byType[t] the fragments of type t, each once, in
\* ascending index; baked is set exactly then
C24_TablesAfterBake ==
  /\ baked <=> wpc = "ready"
  /\ wpc = "ready" =>
       /\ DOMAIN frags = 0..(fragCount - 1)
       /\ \A i \in DOMAIN frags :
            /\ frags[i].i = i /\ ~frags[i].wrapped
            /\ frags[i].type \notin fragHandlers => frags[i].frag = PNone
       /\ DOMAIN byType = { frags[i].type : i \in DOMAIN frags }
       /\ \A t \in DOMAIN byType :
            /\ Len(byType[t]) = Cardinality(IndexesOfType(t))
            /\ \A j \in 1..Len(byType[t]) : byType[t][j] = frags[byType[t][j].i]
            /\ \A j \in 1..Len(byType[t]) : byType[t][j].i \in IndexesOfType(t)
            /\ \A j \in 1..(Len(byType[t]) - 1) : byType[t][j].i < byType[t][j + 1].i

\* the rebake keeps the payload each fragment was decoded to
C24_BakeKeepsPayloads ==
  (wpc = "table" /\ wpc' = "ready")
  => \A i \in DOMAIN frags : i \in DOMAIN frags' /\ frags'[i].frag = TupleFrag(frags[i])

\* a by-index reference resolved before the bake and one to the same index
\* resolved after it
C24_SamePayloadBeforeAndAfter ==
  \A i, j \in 1..Len(calls) :
    (/\ ~calls[i].baked /\ calls[j].baked
     /\ refs[calls[i].r].id # -1 /\ refs[calls[i].r].id = refs[calls[j].r].id
     /\ calls[i].out = "ok" /\ calls[j].out = "ok")
    => /\ calls[i].val = calls[j].val
       /\ calls[i].val.k # "tuple"
       /\ calls[i].val = ChainEnd(calls[i].r, refs, Len(refs))

\* C24: after the rebake frags has the keys 0..fragCount-1, each with the
\* decoded payload (None without handler), byType[t] lists the fragments
\* of type t once each in ascending index, baked is false during the table
\* pass and true afterwards, and a by-index reference resolved before the
\* bake yields the payload one resolved after it yields.
C24_BakedTablesAgree ==
  [](C24_TablesAfterBake /\ C24_SamePayloadBeforeAndAfter)
  /\ [][C24_BakeKeepsPayloads]_vars

\* a reference to fragment 2 was resolved by a table lookup before the
\* bake, and another reference to fragment 2 by a table lookup after it
C24_Witness ==
  \E i, j \in 1..Len(calls) :
    /\ ~calls[i].baked /\ calls[j].baked /\ calls[i].r # calls[j].r
    /\ refs[calls[i].r].id = 2 /\ refs[calls[j].r].id = 2
    /\ calls[i].look > 0 /\ calls[j].look > 0
    /\ calls[i].out = "ok" /\ calls[j].out = "ok"
    /\ calls[i].val.k = "light_source" /\ calls[j].val = calls[i].val
    /\ IndexesOfType(T_light_sourceref) # {}
    /\ Len(byType[T_light_sourceref]) = Cardinality(IndexesOfType(T_light_sourceref))

(***************************************************************************)
(* Material binding and the order of the fragments.                        *)
(***************************************************************************)
\* every fragment of the texture binding chain of entry j (from 0) of the
\* texture list of mesh entry e exists
ChainComplete(e, j) ==
  /\ TargetOf(e.frag.r).k = "texlist"
  /\ j < Len(TargetOf(e.frag.r).rs)
  /\ TargetOf(TargetOf(e.frag.r).rs[j + 1]).k = "texref"
  /\ TargetOf(TargetOf(TargetOf(e.frag.r).rs[j + 1]).r).k = "texbitinfo"

\* C25: a run whose index is in range and whose texture binding chain is
\* complete is not skipped, whatever the order in which the fragments of
\* the chain were decoded, and the material it gets is the one the chain
\* describes.
C25_BindingIgnoresDecodeOrder ==
  \A j \in RunIndexes :
    LET r == runs[j]
    IN (r.avail > 0 /\ r.index < r.avail /\ ChainComplete(frags[r.frag], r.index))
       => /\ r.status # "skipped"
          /\ r.status = "emitted" => r.material = EntryMaterial(frags[r.frag], r.index)

(***************************************************************************)
(* The vertex buffer.                                                      *)
(***************************************************************************)
\* the meshes of the zone: those of the world object and of every object
ZoneMeshSet ==
  { zone.zoneobj[n] : n \in 1..Len(zone.zoneobj) }
  \cup UNION { { zone.objects[o].meshes[n] : n \in 1..Len(zone.objects[o].meshes) } :
               o \in 1..Len(zone.objects) }

\* C26: the vertex buffer of every mesh holds one interleaved (position,
\* normal, texcoord) entry, 8 values, per vertex of the count given to
\* VertexBuffer.
C26_OneEntryPerVertex ==
  \A m \in ZoneMeshSet : Len(m.vbuf.data) = 8 * m.vbuf.count

(***************************************************************************)
(* The polygon offset of the run loop.                                     *)
(***************************************************************************)
\* the sum of the counts of the first n runs of polytex table pt
RECURSIVE SumCounts(_, _)
SumCounts(pt, n) == IF n = 0 THEN 0 ELSE SumCounts(pt, n - 1) + pt[n][1]

\* the number of polygons there are at the positions off+1..off+count
InRange(r) ==
  LET n == Len(frags[r.frag].frag.m.polys)
      hi == IF r.off + r.count < n THEN r.off + r.count ELSE n
  IN IF hi > r.off THEN hi - r.off ELSE 0

\* C27: when run k of a mesh is processed the polygon offset is the sum of
\* the counts of the runs before it, whatever path the iterations before
\* it took; the slice of the run is the polygons off+1..off+count, and the
\* slices of two different runs of a mesh have no polygon in common (the
\* earlier run ends where the later one begins, or before).
C27_OffsetIsSumOfCounts ==
  /\ \A j \in RunIndexes :
       LET r == runs[j]
           polys == frags[r.frag].frag.m.polys
       IN /\ r.off = SumCounts(frags[r.frag].frag.m.polytex, r.k - 1)
          /\ Len(r.slice) = InRange(r)
          /\ \A n \in 1..Len(r.slice) : r.slice[n] = polys[r.off + n]
  /\ \A i, j \in RunIndexes :
       (runs[i].frag = runs[j].frag /\ runs[i].k < runs[j].k)
       => runs[i].off + runs[i].count <= runs[j].off

\* second runs were processed at offset 2 after a first run that fell back
\* (convertZone) and after one that was dropped (convertObjects), and a
\* second run at offset 1 after a run that was skipped
C27_Witness ==
  /\ \E i, j \in RunIndexes :
       /\ runs[i].site = ZoneSite /\ runs[i].k = 1 /\ OutOfRange(runs[i])
       /\ runs[i].status = "emitted" /\ runs[i].count = 2
       /\ runs[j].site = ZoneSite /\ runs[j].frag = runs[i].frag
       /\ runs[j].k = 2 /\ runs[j].off = 2 /\ Len(runs[j].slice) = 1
  /\ \E i, j \in RunIndexes :
       /\ runs[i].site = ObjectsSite /\ runs[i].k = 1 /\ runs[i].status = "dropped"
       /\ runs[j].site = ObjectsSite /\ runs[j].frag = runs[i].frag
       /\ runs[j].k = 2 /\ runs[j].off = 2

(***************************************************************************)
(* The lights.                                                             *)
(***************************************************************************)
\* the index of the j-th fragment of type t, counted in ascending index
NthOfType(t, j) ==
  CHOOSE i \in IndexesOfType(t) : Cardinality({ m \in IndexesOfType(t) : m < i }) = j - 1

\* the light the j-th light placement stands for: position, radius and
\* flags as the placement was decoded, attenuation and color of the light
\* source at the end of its chain of references
LightOfPlacement(j) ==
  LET p == frags[NthOfType(T_light_info, j)].frag
      src == TargetOf(p.r)
  IN [position |-> <<p.d[2], p.d[3], p.d[4]>>, radius |-> p.d[5], flags |-> p.d[1],
      attenuation |-> src.d[1], color |-> <<src.d[2], src.d[3], src.d[4]>>]

\* the lights appended by the step
NewLights == SubSeq(zone'.lights, Len(zone.lights) + 1, Len(zone'.lights))

\* a step of convertLights: the lights it appends are those of the first
\* placements in ascending index, each placement once, and a call that
\* returns has appended one for every placement
C28_LightsStep ==
  (nwalks' = nwalks + 1 /\ awalk' = "convertLights")
  => /\ SubSeq(zone'.lights, 1, Len(zone.lights)) = zone.lights
     /\ Len(NewLights) <= Cardinality(IndexesOfType(T_light_info))
     /\ \A j \in 1..Len(NewLights) :
          /\ TargetOf(frags[NthOfType(T_light_info, j)].frag.r).k = "light_source"
          /\ NewLights[j] = LightOfPlacement(j)
     /\ apc' = "returned" => Len(NewLights) = Cardinality(IndexesOfType(T_light_info))

\* every other step leaves the lights alone
C28_OnlyLightsAdds ==
  ~(nwalks' = nwalks + 1 /\ awalk' = "convertLights") => zone'.lights = zone.lights

\* C28: convertLights appends one Light per light-placement fragment, in
\* ascending fragment index, with attenuation and color of the light
\* source at the end of the placement's chain of references and position,
\* radius and flags of the placement.
C28_OneLightPerPlacement == [][C28_LightsStep /\ C28_OnlyLightsAdds]_vars

\* convertLights returned after two placements, the first reaching its
\* light source through a light-source reference fragment
C28_Witness ==
  /\ awalk = "convertLights" /\ apc = "returned" /\ nwalks = 1
  /\ Cardinality(IndexesOfType(T_light_info)) = 2
  /\ IndexesOfType(T_light_sourceref) # {}
  /\ Len(zone.lights) = 2
  /\ zone.lights[1] = [position |-> <<4, 5, 6>>, radius |-> 8, flags |-> 1,
                       attenuation |-> 9, color |-> <<1, 2, 3>>]
  /\ zone.lights[2] = [position |-> <<3, 2, 1>>, radius |-> 5, flags |-> 2,
                       attenuation |-> DefaultAttenuation, color |-> <<7, 7, 7>>]

(***************************************************************************)
(* The names of objects and placeables.                                    *)
(***************************************************************************)
\* s without suf at its end, s itself when it does not end with suf
StripSuffix(s, suf) ==
  IF Len(s) >= Len(suf) /\ SubSeq(s, Len(s) - Len(suf) + 1, Len(s)) = suf
  THEN SubSeq(s, 1, Len(s) - Len(suf))
  ELSE s

\* convertObjects returned in this step
ObjectsReturned ==
  nwalks' = nwalks + 1 /\ awalk' = "convertObjects" /\ apc' = "returned"

NewPlaceables ==
  SubSeq(zone'.placeables, Len(zone.placeables) + 1, Len(zone'.placeables))

\* C29: a convertObjects call that returns has appended one Placeable per
\* object-placement fragment, in fragment order, with the position,
\* rotation and scale decoded, named by the referenced name without the
\* suffix "_ACTORDEF" at its end, and has named the object of every mesh
\* fragment by the fragment's name without the suffix "_DMSPRITEDEF" at its
\* end; the same text elsewhere in a name is kept.
C29_Step ==
  ObjectsReturned
  => /\ Len(NewPlaceables) = Cardinality(IndexesOfType(T_objloc))
     /\ \A j \in 1..Len(NewPlaceables) :
          LET p == frags[NthOfType(T_objloc, j)].frag
          IN /\ NewPlaceables[j].name
                  = StripSuffix(getString(stringTable, -(p.d[10])), ActorSuffix)
             /\ NewPlaceables[j].position = <<p.d[1], p.d[2], p.d[3]>>
             /\ NewPlaceables[j].rotation = <<p.d[4], p.d[5], p.d[6]>>
             /\ NewPlaceables[j].scale = <<p.d[7], p.d[8], p.d[9]>>
     /\ Len(zone'.objects) = Len(zone.objects) + Cardinality(IndexesOfType(T_mesh))
     /\ \A j \in 1..Cardinality(IndexesOfType(T_mesh)) :
          zone'.objects[Len(zone.objects) + j].name
            = StripSuffix(frags[NthOfType(T_mesh, j)].frag.nm, MeshSuffix)

C29_SuffixStrippedFromEnd == [][C29_Step]_vars

(***************************************************************************)
(* The chunk loop of readS3D, one iteration per step.                      *)
(***************************************************************************)
\* the entry whose chunks are being read: crc, foff, size of its table
\* record and the data accumulated so far
CurrentEntry == entries[Len(entries)]

\* a cursor that stays where the chunk began
ChunkEnd_Rewind(pos, deflen) == pos

\* the cursor after a chunk read from pos: two 4-byte lengths (line 21) and
\* deflen compressed bytes (line 22)
ChunkEnd(pos, deflen) == pos + 8 + deflen

\* lines 14-19: the table record of entry i is read, the cursor is set to
\* its file offset and data starts empty
S3dEntryBegin ==
  /\ spc = "entries"
  /\ a_i < a_count
  /\ LET tpos == a_offset + 4 + a_i * 12
     IN IF ~BufCanRead(a_data, tpos, 12)
        THEN /\ spc' = "raised" /\ serr' = "TruncatedDataError" /\ ssite' = "entry"
             /\ a_pos' = tpos
             /\ UNCHANGED entries
        ELSE /\ entries' = Append(entries,
                                  [crc |-> BufUint(a_data, tpos),
                                   foff |-> BufUint(a_data, tpos + 4),
                                   size |-> BufUint(a_data, tpos + 8),
                                   data |-> <<>>])
             /\ a_pos' = BufUint(a_data, tpos + 4)
             /\ spc' = "chunks"
             /\ UNCHANGED <<serr, ssite>>
  /\ UNCHANGED <<a_data, a_i, a_count, a_offset, directory, filelist, files, binds,
                 nonS3dVars>>

\* lines 20-22: one iteration of the while loop
S3dChunk ==
  /\ spc = "chunks"
  /\ MoreChunks(CurrentEntry.data, CurrentEntry.size)
  /\ IF ~BufCanRead(a_data, a_pos, 8)
     THEN /\ spc' = "raised" /\ serr' = "TruncatedDataError" /\ ssite' = "chunk"
          /\ UNCHANGED <<a_pos, entries>>
     ELSE LET deflen == BufUint(a_data, a_pos)
          IN IF ~BufCanRead(a_data, a_pos + 8, deflen)
             THEN /\ spc' = "raised" /\ serr' = "TruncatedDataError"
                  /\ ssite' = "chunk"
                  /\ a_pos' = a_pos + 8
                  /\ UNCHANGED entries
             ELSE LET blob == BufRead(a_data, a_pos + 8, deflen)
                  IN IF ~InflateOk(blob)
                     THEN /\ spc' = "raised" /\ serr' = "zlib.error"
                          /\ ssite' = "chunk"
                          /\ a_pos' = ChunkEnd(a_pos, deflen)
                          /\ UNCHANGED entries
                     ELSE /\ entries' = [entries EXCEPT ![Len(entries)].data =
                                                          @ \o Inflate(blob)]
                          /\ a_pos' = ChunkEnd(a_pos, deflen)
                          /\ UNCHANGED <<spc, serr, ssite>>
  /\ UNCHANGED <<a_data, a_i, a_count, a_offset, directory, filelist, files, binds,
                 nonS3dVars>>

\* lines 20 and 23-26: the loop condition is false; the data goes to the
\* directory or to the file list and the next entry follows
S3dEntryEnd ==
  /\ spc = "chunks"
  /\ ~MoreChunks(CurrentEntry.data, CurrentEntry.size)
  /\ a_i' = a_i + 1
  /\ directory' = DirectoryAfter(directory, CurrentEntry.crc, CurrentEntry.data)
  /\ filelist' = FilelistAfter(filelist, CurrentEntry.crc, CurrentEntry.foff,
                               CurrentEntry.data)
  /\ spc' = "entries"
  /\ UNCHANGED <<a_data, a_pos, a_count, a_offset, files, entries, binds, serr, ssite,
                 nonS3dVars>>

\* the archives the loop is followed on
MaxChunks == 3
MaxChunkSize == 3

\* the chunks of a file: of no byte, of one byte, of two bytes, one that
\* does not decompress, one whose compressed length passes the end
ChunkChoices ==
  { Chunk(0, <<0, 1>>), Chunk(1, <<1, 4>>), Chunk(2, <<2, 7>>), Chunk(1, <<1>>),
    LE32(200) \o LE32(1) \o <<1, 2>> }

\* an archive of one entry whose chunks are the last bytes of the archive
TailArchive(crc, size, chunks) ==
  LE32(8) \o PfsMagic \o LE32(1) \o LE32(crc) \o LE32(24) \o LE32(size)
  \o Concat(chunks)

ChunkArchives ==
  { TailArchive(7, size, cs) :
      size \in 0..MaxChunkSize, cs \in {<<>>} \cup SeqsUpTo(ChunkChoices, MaxChunks) }
  \cup
  { Archive(<<f>>, << <<97, 0>> >>, "ok", o) : f \in FileChoices, o \in TableOrders }

InitChunk ==
  (\E data \in ChunkArchives : S3dStart(data)) /\ WldIdle /\ CodecIdle /\ AsmStart(<<>>)

NextChunk == S3dOpen \/ S3dEntryBegin \/ S3dChunk \/ S3dEntryEnd \/ S3dFinish

\* readS3D is sequential code: it takes its next step as long as it has one
SpecChunk == InitChunk /\ [][NextChunk]_vars /\ WF_vars(NextChunk)

\* an iteration that goes on to the next consumed a whole chunk: the cursor
\* moved forward by at least the 8 bytes of the two lengths and is within
\* the archive
C30_IterationAdvances ==
  (spc = "chunks" /\ spc' = "chunks")
  => /\ a_pos' >= a_pos + 8 /\ a_pos' <= Len(a_data)
     /\ Len(CurrentEntry'.data) >= Len(CurrentEntry.data)

\* the loop is left for the next entry exactly when the data has reached
\* the declared size, with the data and the cursor of lines 19-22
C30_StopsAtSize ==
  /\ (spc = "chunks" /\ ~MoreChunks(CurrentEntry.data, CurrentEntry.size))
       => spc' = "entries" /\ entries' = entries
  /\ (spc = "chunks" /\ spc' = "entries")
       => LET rd == ReadChunks(<<>>, CurrentEntry.foff, CurrentEntry.size, <<>>)
          IN /\ Len(CurrentEntry.data) >= CurrentEntry.size
             /\ rd.ok /\ rd.data = CurrentEntry.data /\ rd.pos = a_pos

\* the loop is left by an exception only before the size is reached: by
\* TruncatedDataError, raised by a read that would pass the end of the
\* archive, or by the error of the decompression of a chunk
C30_EndsWithError ==
  (spc = "chunks" /\ spc' = "raised")
  => /\ Len(CurrentEntry.data) < CurrentEntry.size
     /\ ssite' = "chunk"
     /\ serr' \in {"TruncatedDataError", "zlib.error"}
     /\ serr' = "TruncatedDataError"
          => \/ ~BufCanRead(a_data, a_pos, 8) /\ a_pos' = a_pos
             \/ /\ a_pos' = a_pos + 8
                /\ ~BufCanRead(a_data, a_pos + 8, BufUint(a_data, a_pos))
     /\ serr' = "zlib.error"
          => /\ BufCanRead(a_data, a_pos, 8)
             /\ ~InflateOk(BufRead(a_data, a_pos + 8, BufUint(a_data, a_pos)))
     /\ LET rd == ReadChunks(<<>>, CurrentEntry.foff, CurrentEntry.size, <<>>)
        IN ~rd.ok /\ rd.err = serr' /\ rd.pos = a_pos'

\* C30: for every entry of every archive the chunk loop of readS3D ends:
\* it stops once the data accumulated has reached the declared size, and
\* when the chunks present never reach it (chunks of no byte, a declared
\* size larger than the data) it ends with the error of a read that would
\* pass the end of the archive.
C30_ChunkLoopTerminates ==
  /\ (spc = "chunks") ~> (spc \in {"entries", "raised"})
  /\ <>(spc \in {"returned", "raised"})
  /\ [][C30_IterationAdvances /\ C30_StopsAtSize /\ C30_EndsWithError]_vars

\* the loop read two chunks of no byte for an entry of declared size 1 and
\* ended with TruncatedDataError at the end of the archive
C30_Witness ==
  /\ spc = "raised" /\ serr = "TruncatedDataError" /\ ssite = "chunk"
  /\ entries # <<>>
  /\ CurrentEntry.size = 1 /\ CurrentEntry.data = <<>>
  /\ a_pos = CurrentEntry.foff + 20 /\ a_pos = Len(a_data)

====
